---- MODULE Spec2Model ----
(***************************************************************************)
(* Node-MAW: two store clients (AppStoreClient, PlayStoreClient) fetching  *)
(* app versions with bounded retry, the helpers built on getVersion        *)
(* (exists, checkForUpdates), search, the version comparator               *)
(* compareVersions, and the facade NodeMaw with its shared configuration.  *)
(*                                                                         *)
(* JavaScript strings are sequences of one-character strings, so that      *)
(* trim, includes, replace, split and the package-name pattern are         *)
(* computed character by character.  A JavaScript value of unknown type is *)
(* a record [t |-> typeof-like tag, v |-> its String() rendering].  An     *)
(* optional field is <<>> (undefined) or <<x>>.                            *)
(***************************************************************************)
EXTENDS Integers, Sequences, FiniteSets, TLC

VARIABLES
    config,      \* [store -> that client's this.config]
    axiosClient, \* AppStoreClient's this.client: the axios instance built from its config
    pc,          \* position of the one call in flight: idle, lookup, backoff, search, done
    op,          \* the public operation called: getVersion, exists, checkForUpdates, search
    store,       \* the client called: "app" (AppStoreClient) or "play" (PlayStoreClient)
    argId,       \* the identifier argument (bundleId / packageName) or search term, a JS value
    argCur,      \* the currentVersion argument of checkForUpdates, a JS value
    maxAttempts, \* getVersion's local const maxAttempts
    attempts,    \* getVersion's local counter attempts
    cfgAtStart,  \* history: this.config as it was when getVersion read maxAttempts
    log,         \* history: the backend lookups and backoff waits of this call, in order
    lastResp,    \* history: how the most recent backend lookup settled
    transportOnly,\* history: every lookup of this call so far was a transport failure
    gvOutcome,   \* how getVersion ended (returned / threw), or none
    outcome,     \* how the public operation ended (returned / threw), or none
    other,       \* a second call on its way: its arguments, locals and position
    cmpA,        \* compareVersions: first argument under test
    cmpB,        \* compareVersions: second argument under test
    cmpRes,      \* compareVersions: <<>> before the call, <<result>> after it
    facade,      \* NodeMaw's this.config (<<>> where the clients are built without a facade)
    heap,        \* the headers objects, by reference: heap[r] is the object r refers to
    held,        \* the snapshot a caller holds: <<>> or <<the object getConfig returned>>
    heldAtReturn,\* history: that snapshot, headers included, as it was when returned
    lastCfgOp,   \* history: the most recent configuration operation and its argument
    before,      \* history: config, facade and heap before that operation
    cfgOps       \* history: number of configuration operations since construction

vars == <<config, axiosClient, pc, op, store, argId, argCur, maxAttempts, attempts, cfgAtStart,
          log, lastResp, transportOnly, gvOutcome, outcome, other, cmpA, cmpB, cmpRes,
          facade, heap, held, heldAtReturn, lastCfgOp, before, cfgOps>>

callVars == <<pc, op, store, argId, argCur, maxAttempts, attempts, cfgAtStart,
              log, lastResp, transportOnly, gvOutcome, outcome, other>>

cmpVars == <<cmpA, cmpB, cmpRes>>

histVars == <<held, heldAtReturn, lastCfgOp, before, cfgOps>>

cfgVars == <<facade, heap, histVars>>

-----------------------------------------------------------------------------
(* Bounds of the model. *)

\* updateConfig sets retryAttempts to a value in 0..MaxRetryAttempts (the
\* constructors' default of 3 is a value besides)
MaxRetryAttempts == 2

\* version strings under test: every string over VersionAlphabet up to this length
MaxLen == 3

-----------------------------------------------------------------------------
(* String literals of the source, as character sequences. *)

SENTINEL_Unknown ==
    <<"U", "n", "k", "n", "o", "w", "n">>

SENTINEL_VARY ==
    <<"V", "A", "R", "Y">>

\* the message texts of AppStoreClient
AppMsg ==
    [bundleIdRequired |->
         <<"B", "u", "n", "d", "l", "e", " ", "I", "D", " ", "i", "s", " ", "r", "e", "q", "u", "i", "r", "e", "d", " ", "a", "n", "d", " ", "m", "u", "s", "t", " ", "b", "e", " ", "a", " ", "s", "t", "r", "i", "n", "g">>,
     bundleIdEmpty |->
         <<"B", "u", "n", "d", "l", "e", " ", "I", "D", " ", "c", "a", "n", "n", "o", "t", " ", "b", "e", " ", "e", "m", "p", "t", "y">>,
     appNotFound |->
         <<"A", "p", "p", " ", "n", "o", "t", " ", "f", "o", "u", "n", "d", ":", " ">>,
     invalidResponse |->
         <<"I", "n", "v", "a", "l", "i", "d", " ", "r", "e", "s", "p", "o", "n", "s", "e", " ", "f", "o", "r", "m", "a", "t", " ", "f", "o", "r", " ">>,
     failedToFetch |->
         <<"F", "a", "i", "l", "e", "d", " ", "t", "o", " ", "f", "e", "t", "c", "h", " ", "A", "p", "p", " ", "S", "t", "o", "r", "e", " ", "v", "e", "r", "s", "i", "o", "n", ":", " ">>,
     networkError |->
         <<"N", "e", "t", "w", "o", "r", "k", " ", "e", "r", "r", "o", "r", " ", "w", "h", "i", "l", "e", " ", "f", "e", "t", "c", "h", "i", "n", "g", " ", "A", "p", "p", " ", "S", "t", "o", "r", "e", " ", "v", "e", "r", "s", "i", "o", "n", ":", " ">>,
     unknownError |->
         <<"U", "n", "k", "n", "o", "w", "n", " ", "e", "r", "r", "o", "r">>,
     failedAfter |->
         <<"F", "a", "i", "l", "e", "d", " ", "t", "o", " ", "f", "e", "t", "c", "h", " ", "A", "p", "p", " ", "S", "t", "o", "r", "e", " ", "v", "e", "r", "s", "i", "o", "n", " ", "a", "f", "t", "e", "r", " ">>,
     attempts |->
         <<" ", "a", "t", "t", "e", "m", "p", "t", "s">>,
     currentVersionRequired |->
         <<"C", "u", "r", "r", "e", "n", "t", " ", "v", "e", "r", "s", "i", "o", "n", " ", "i", "s", " ", "r", "e", "q", "u", "i", "r", "e", "d", " ", "a", "n", "d", " ", "m", "u", "s", "t", " ", "b", "e", " ", "a", " ", "s", "t", "r", "i", "n", "g">>,
     currentVersionEmpty |->
         <<"C", "u", "r", "r", "e", "n", "t", " ", "v", "e", "r", "s", "i", "o", "n", " ", "c", "a", "n", "n", "o", "t", " ", "b", "e", " ", "e", "m", "p", "t", "y">>,
     failedToCheck |->
         <<"F", "a", "i", "l", "e", "d", " ", "t", "o", " ", "c", "h", "e", "c", "k", " ", "f", "o", "r", " ", "u", "p", "d", "a", "t", "e", "s", ":", " ">>,
     searchTermRequired |->
         <<"S", "e", "a", "r", "c", "h", " ", "t", "e", "r", "m", " ", "i", "s", " ", "r", "e", "q", "u", "i", "r", "e", "d", " ", "a", "n", "d", " ", "m", "u", "s", "t", " ", "b", "e", " ", "a", " ", "s", "t", "r", "i", "n", "g">>,
     failedToSearch |->
         <<"F", "a", "i", "l", "e", "d", " ", "t", "o", " ", "s", "e", "a", "r", "c", "h", " ", "A", "p", "p", " ", "S", "t", "o", "r", "e", ":", " ">>,
     networkErrorSearching |->
         <<"N", "e", "t", "w", "o", "r", "k", " ", "e", "r", "r", "o", "r", " ", "w", "h", "i", "l", "e", " ", "s", "e", "a", "r", "c", "h", "i", "n", "g", " ", "A", "p", "p", " ", "S", "t", "o", "r", "e", ":", " ">>]

\* the message texts of PlayStoreClient, and the substrings its catch block looks for
PlayMsg ==
    [packageNameRequired |->
         <<"P", "a", "c", "k", "a", "g", "e", " ", "n", "a", "m", "e", " ", "i", "s", " ", "r", "e", "q", "u", "i", "r", "e", "d", " ", "a", "n", "d", " ", "m", "u", "s", "t", " ", "b", "e", " ", "a", " ", "s", "t", "r", "i", "n", "g">>,
     packageNameEmpty |->
         <<"P", "a", "c", "k", "a", "g", "e", " ", "n", "a", "m", "e", " ", "c", "a", "n", "n", "o", "t", " ", "b", "e", " ", "e", "m", "p", "t", "y">>,
     invalidFormat |->
         <<"I", "n", "v", "a", "l", "i", "d", " ", "p", "a", "c", "k", "a", "g", "e", " ", "n", "a", "m", "e", " ", "f", "o", "r", "m", "a", "t", ":", " ">>,
     expectedFormat |->
         <<".", " ", "E", "x", "p", "e", "c", "t", "e", "d", " ", "f", "o", "r", "m", "a", "t", ":", " ", "c", "o", "m", ".", "e", "x", "a", "m", "p", "l", "e", ".", "a", "p", "p">>,
     appNotFound |->
         <<"A", "p", "p", " ", "n", "o", "t", " ", "f", "o", "u", "n", "d", ":", " ">>,
     notFound |->
         <<"n", "o", "t", " ", "f", "o", "u", "n", "d">>,
     code404 |->
         <<"4", "0", "4">>,
     network |->
         <<"n", "e", "t", "w", "o", "r", "k">>,
     timeout |->
         <<"t", "i", "m", "e", "o", "u", "t">>,
     networkError |->
         <<"N", "e", "t", "w", "o", "r", "k", " ", "e", "r", "r", "o", "r", " ", "w", "h", "i", "l", "e", " ", "f", "e", "t", "c", "h", "i", "n", "g", " ", "P", "l", "a", "y", " ", "S", "t", "o", "r", "e", " ", "v", "e", "r", "s", "i", "o", "n", ":", " ">>,
     failedToFetch |->
         <<"F", "a", "i", "l", "e", "d", " ", "t", "o", " ", "f", "e", "t", "c", "h", " ", "P", "l", "a", "y", " ", "S", "t", "o", "r", "e", " ", "v", "e", "r", "s", "i", "o", "n", ":", " ">>,
     unknownErrorWhile |->
         <<"U", "n", "k", "n", "o", "w", "n", " ", "e", "r", "r", "o", "r", " ", "w", "h", "i", "l", "e", " ", "f", "e", "t", "c", "h", "i", "n", "g", " ", "P", "l", "a", "y", " ", "S", "t", "o", "r", "e", " ", "v", "e", "r", "s", "i", "o", "n", ":", " ">>,
     failedAfter |->
         <<"F", "a", "i", "l", "e", "d", " ", "t", "o", " ", "f", "e", "t", "c", "h", " ", "P", "l", "a", "y", " ", "S", "t", "o", "r", "e", " ", "v", "e", "r", "s", "i", "o", "n", " ", "a", "f", "t", "e", "r", " ">>,
     attempts |->
         <<" ", "a", "t", "t", "e", "m", "p", "t", "s">>,
     currentVersionRequired |->
         <<"C", "u", "r", "r", "e", "n", "t", " ", "v", "e", "r", "s", "i", "o", "n", " ", "i", "s", " ", "r", "e", "q", "u", "i", "r", "e", "d", " ", "a", "n", "d", " ", "m", "u", "s", "t", " ", "b", "e", " ", "a", " ", "s", "t", "r", "i", "n", "g">>,
     currentVersionEmpty |->
         <<"C", "u", "r", "r", "e", "n", "t", " ", "v", "e", "r", "s", "i", "o", "n", " ", "c", "a", "n", "n", "o", "t", " ", "b", "e", " ", "e", "m", "p", "t", "y">>,
     failedToCheck |->
         <<"F", "a", "i", "l", "e", "d", " ", "t", "o", " ", "c", "h", "e", "c", "k", " ", "f", "o", "r", " ", "u", "p", "d", "a", "t", "e", "s", ":", " ">>,
     searchTermRequired |->
         <<"S", "e", "a", "r", "c", "h", " ", "t", "e", "r", "m", " ", "i", "s", " ", "r", "e", "q", "u", "i", "r", "e", "d", " ", "a", "n", "d", " ", "m", "u", "s", "t", " ", "b", "e", " ", "a", " ", "s", "t", "r", "i", "n", "g">>,
     networkErrorSearching |->
         <<"N", "e", "t", "w", "o", "r", "k", " ", "e", "r", "r", "o", "r", " ", "w", "h", "i", "l", "e", " ", "s", "e", "a", "r", "c", "h", "i", "n", "g", " ", "P", "l", "a", "y", " ", "S", "t", "o", "r", "e", ":", " ">>]

-----------------------------------------------------------------------------
(* JavaScript values and strings. *)

Undefined == <<>>

Some(x) == <<x>>

JsStr(s) == [t |-> "string", v |-> s]

JsNull == [t |-> "null", v |-> <<"n", "u", "l", "l">>]

JsNumber123 == [t |-> "number", v |-> <<"1", "2", "3">>]

\* typeof x === 'string'
IsString(x) == x.t = "string"

\* !x
Falsy(x) ==
    \/ x.t \in {"null", "undefined"}
    \/ x.t = "string" /\ x.v = <<>>
    \/ x.t = "number" /\ x.v = <<"0">>

\* x || ''
OrEmptyString(x) == IF Falsy(x) THEN JsStr(<<>>) ELSE x

Digits == {"0", "1", "2", "3", "4", "5", "6", "7", "8", "9"}

Letters ==
    {"a", "b", "c", "d", "e", "f", "g", "h", "i", "j", "k", "l", "m",
     "n", "o", "p", "q", "r", "s", "t", "u", "v", "w", "x", "y", "z",
     "A", "B", "C", "D", "E", "F", "G", "H", "I", "J", "K", "L", "M",
     "N", "O", "P", "Q", "R", "S", "T", "U", "V", "W", "X", "Y", "Z"}

Whitespace == {" ", "\t", "\n", "\r"}

RECURSIVE TrimStart(_)
TrimStart(s) ==
    IF s # <<>> /\ Head(s) \in Whitespace THEN TrimStart(Tail(s)) ELSE s

RECURSIVE TrimEnd(_)
TrimEnd(s) ==
    IF s # <<>> /\ s[Len(s)] \in Whitespace
    THEN TrimEnd(SubSeq(s, 1, Len(s) - 1))
    ELSE s

\* String.prototype.trim
Trim(s) == TrimEnd(TrimStart(s))

\* String.prototype.includes
Includes(s, sub) ==
    \E i \in 0..(Len(s) - Len(sub)) : SubSeq(s, i + 1, i + Len(sub)) = sub

DigitChar(d) ==
    CASE d = 0 -> "0" [] d = 1 -> "1" [] d = 2 -> "2" [] d = 3 -> "3" [] d = 4 -> "4"
      [] d = 5 -> "5" [] d = 6 -> "6" [] d = 7 -> "7" [] d = 8 -> "8" [] d = 9 -> "9"

DigitValue(c) ==
    CASE c = "0" -> 0 [] c = "1" -> 1 [] c = "2" -> 2 [] c = "3" -> 3 [] c = "4" -> 4
      [] c = "5" -> 5 [] c = "6" -> 6 [] c = "7" -> 7 [] c = "8" -> 8 [] c = "9" -> 9

\* `${n}` for a non-negative integer n
RECURSIVE NumberToString(_)
NumberToString(n) ==
    IF n < 10 THEN <<DigitChar(n)>>
    ELSE NumberToString(n \div 10) \o <<DigitChar(n % 10)>>

-----------------------------------------------------------------------------
(* compareVersions (types module). *)

Sentinels == {SENTINEL_Unknown, SENTINEL_VARY}

\* version.replace(/[^0-9.]/g, '')
IsNumericOrDot(c) == c \in Digits \cup {"."}

CleanVersion(version) == SelectSeq(version, IsNumericOrDot)

\* String.prototype.split('.'): the empty string splits into one empty segment
RECURSIVE SplitOnDot(_)
SplitOnDot(s) ==
    IF \A i \in 1..Len(s) : s[i] # "."
    THEN <<s>>
    ELSE LET i == CHOOSE k \in 1..Len(s) :
                      s[k] = "." /\ \A j \in 1..(k - 1) : s[j] # "."
         IN  <<SubSeq(s, 1, i - 1)>> \o SplitOnDot(SubSeq(s, i + 1, Len(s)))

\* halving a decimal numeral (digit values, most significant first) from digit i on
RECURSIVE HalveFrom(_, _, _)
HalveFrom(ds, i, carry) ==
    IF i > Len(ds) THEN <<>>
    ELSE <<(carry * 10 + ds[i]) \div 2>> \o HalveFrom(ds, i + 1, (carry * 10 + ds[i]) % 2)

\* the binary numeral (most significant bit first, <<>> for zero) of a decimal one
RECURSIVE BitsOf(_)
BitsOf(ds) ==
    IF \A i \in 1..Len(ds) : ds[i] = 0 THEN <<>>
    ELSE BitsOf(HalveFrom(ds, 1, 0)) \o <<ds[Len(ds)] % 2>>

\* a binary numeral plus one
RECURSIVE BitsPlusOne(_)
BitsPlusOne(bits) ==
    IF bits = <<>> THEN <<1>>
    ELSE IF bits[Len(bits)] = 0 THEN SubSeq(bits, 1, Len(bits) - 1) \o <<1>>
    ELSE BitsPlusOne(SubSeq(bits, 1, Len(bits) - 1)) \o <<0>>

\* a JavaScript number that is a non-negative integer or Infinity: an IEEE 754
\* double has a 53-bit significand, so an integer of more bits is rounded to the
\* nearest representable one (ties to the even significand), and one beyond the
\* largest exponent becomes Infinity.  bits is the binary numeral of the value.
RoundToDouble(bits) ==
    IF Len(bits) <= 53 THEN [inf |-> FALSE, bits |-> bits]
    ELSE LET top == SubSeq(bits, 1, 53)
             rest == SubSeq(bits, 54, Len(bits))
             roundUp == /\ rest[1] = 1
                        /\ \/ \E i \in 2..Len(rest) : rest[i] = 1
                           \/ top[53] = 1
             rounded == (IF roundUp THEN BitsPlusOne(top) ELSE top)
                            \o [i \in 1..Len(rest) |-> 0]
         IN  IF Len(rounded) > 1024 THEN [inf |-> TRUE, bits |-> <<>>]
             ELSE [inf |-> FALSE, bits |-> rounded]

\* the number 0
NumberZero == [inf |-> FALSE, bits |-> <<>>]

\* Number(segment) for a segment of decimal digits; Number('') is 0
NumberOf(segment) ==
    RoundToDouble(BitsOf([i \in 1..Len(segment) |-> DigitValue(segment[i])]))

\* x < y on these numbers
NumberLess(x, y) ==
    IF x.inf THEN FALSE
    ELSE IF y.inf THEN TRUE
    ELSE \/ Len(x.bits) < Len(y.bits)
         \/ /\ Len(x.bits) = Len(y.bits)
            /\ \E i \in 1..Len(x.bits) :
                   /\ x.bits[i] < y.bits[i]
                   /\ \A j \in 1..(i - 1) : x.bits[j] = y.bits[j]

\* cleanVersion.split('.').map(Number)
VersionParts(cleanVersion) ==
    LET segments == SplitOnDot(cleanVersion)
    IN  [i \in 1..Len(segments) |-> NumberOf(segments[i])]

\* parts[i] || 0, with i counted from 1 (undefined and 0 both give 0)
PartOrZero(parts, i) == IF i > Len(parts) THEN NumberZero ELSE parts[i]

MaxOf(a, b) == IF a >= b THEN a ELSE b

\* the for loop over i < maxLength, with i counted from 1
RECURSIVE CompareLoop(_, _, _, _)
CompareLoop(parts1, parts2, i, maxLength) ==
    IF i > maxLength THEN 0
    ELSE LET part1 == PartOrZero(parts1, i)
             part2 == PartOrZero(parts2, i)
         IN  IF NumberLess(part1, part2) THEN -1
             ELSE IF NumberLess(part2, part1) THEN 1
             ELSE CompareLoop(parts1, parts2, i + 1, maxLength)

\* mutant: no shortcut for identical strings
compareVersions_NoEqualShortcut(version1, version2) ==
    IF version1 \in Sentinels THEN -1
    ELSE IF version2 \in Sentinels THEN 1
    ELSE LET parts1 == VersionParts(CleanVersion(version1))
             parts2 == VersionParts(CleanVersion(version2))
         IN  CompareLoop(parts1, parts2, 1, MaxOf(Len(parts1), Len(parts2)))

compareVersions_SecondSentinelFirst(version1, version2) ==
    IF version1 = version2 THEN 0
    ELSE IF version2 \in Sentinels THEN 1
    ELSE IF version1 \in Sentinels THEN -1
    ELSE LET parts1 == VersionParts(CleanVersion(version1))
             parts2 == VersionParts(CleanVersion(version2))
         IN  CompareLoop(parts1, parts2, 1, MaxOf(Len(parts1), Len(parts2)))

compareVersions(version1, version2) ==
    IF version1 = version2 THEN 0
    ELSE IF version1 \in Sentinels THEN -1
    ELSE IF version2 \in Sentinels THEN 1
    ELSE LET parts1 == VersionParts(CleanVersion(version1))
             parts2 == VersionParts(CleanVersion(version2))
         IN  CompareLoop(parts1, parts2, 1, MaxOf(Len(parts1), Len(parts2)))

-----------------------------------------------------------------------------
(* Outcomes of calls and of backend lookups. *)

NoOutcome == [t |-> "none"]

Returned(v) == [t |-> "returned", v |-> v]

Threw(e) == [t |-> "threw", e |-> e]

\* catch block decided to wait and loop again
Retry(ms) == [t |-> "retry", ms |-> ms]

Resolved(data) == [settled |-> "resolved", data |-> data]

Rejected(e) == [settled |-> "rejected", e |-> e]

NoResponse == [settled |-> "none"]

-----------------------------------------------------------------------------
(* Error taxonomy (types module). *)

AppStoreError(message, bundleId, statusCode) ==
    [name |-> "AppStoreError", message |-> message,
     bundleId |-> bundleId, statusCode |-> statusCode]

PlayStoreError(message, packageName, statusCode) ==
    [name |-> "PlayStoreError", message |-> message,
     packageName |-> packageName, statusCode |-> statusCode]

NetworkError(message, originalError) ==
    [name |-> "NetworkError", message |-> message, originalError |-> originalError]

\* what axios rejects with: response is <<>> when no response was received
AxiosError(message, response) ==
    [name |-> "AxiosError", message |-> message, response |-> response]

\* a plain Error thrown by a backend
GenericError(message) == [name |-> "Error", message |-> message]

\* error instanceof Error: thrown values that are not Errors are plain JS values
IsError(e) == "name" \in DOMAIN e

IsAppStoreError(e) == IsError(e) /\ e.name = "AppStoreError"

IsPlayStoreError(e) == IsError(e) /\ e.name = "PlayStoreError"

IsAxiosError(e) == IsError(e) /\ e.name = "AxiosError"

\* error instanceof Error ? error.message : 'Unknown error'
MessageOrUnknown(e) == IF IsError(e) THEN e.message ELSE AppMsg.unknownError

\* error instanceof Error ? error : undefined
ErrorOrUndefined(e) == IF IsError(e) THEN Some(e) ELSE Undefined

-----------------------------------------------------------------------------
(* Configuration of the store clients. *)

Stores == {"app", "play"}

UserAgentAppStore ==
    <<"n", "o", "d", "e", "-", "m", "a", "w", "-", "a", "p", "p", "s", "t", "o", "r", "e", "/", "1", ".", "0", ".", "0">>

UserAgentPlayStore ==
    <<"n", "o", "d", "e", "-", "m", "a", "w", "-", "p", "l", "a", "y", "s", "t", "o", "r", "e", "/", "1", ".", "0", ".", "0">>

\* {} : an object without any key
EmptyObject == <<>>

\* An object is a function from its keys to their values.  The keys present
\* with the value undefined ({ timeout: undefined }) are the set stored under
\* UndefinedMark, which is no key of the object.
UndefinedMark == "<undefined>"

UndefKeys(o) == IF UndefinedMark \in DOMAIN o THEN o[UndefinedMark] ELSE {}

DefKeys(o) == (DOMAIN o) \ {UndefinedMark}

\* Object.keys(o)
ObjectKeys(o) == DefKeys(o) \cup UndefKeys(o)

\* the object with the defined entries def and the keys undef set to undefined
Object(def, undef) ==
    IF undef = {} THEN def
    ELSE [f \in (DOMAIN def) \cup {UndefinedMark} |->
              IF f = UndefinedMark THEN undef ELSE def[f]]

\* o.f
Get(o, f) == IF f \in DefKeys(o) THEN Some(o[f]) ELSE Undefined

\* config.f ?? default
FieldOr(cfg, f, default) == IF f \in DefKeys(cfg) THEN cfg[f] ELSE default

\* { ...a, ...b }
Spread(a, b) ==
    Object([f \in (DefKeys(a) \ UndefKeys(b)) \cup DefKeys(b) |->
                IF f \in DefKeys(b) THEN b[f] ELSE a[f]],
           (UndefKeys(a) \ DefKeys(b)) \cup UndefKeys(b))

\* config.headers ?? {} : a new empty object unless headers are given
HeapAfterConstructor(cfg, h) ==
    IF "headers" \in DefKeys(cfg) THEN h ELSE Append(h, EmptyObject)

\* new AppStoreClient(cfg): this.config
AppStoreClientConfig(cfg, h) ==
    [timeout |-> FieldOr(cfg, "timeout", 10000),
     userAgent |-> FieldOr(cfg, "userAgent", UserAgentAppStore),
     headers |-> FieldOr(cfg, "headers", Len(h) + 1),
     retryEnabled |-> FieldOr(cfg, "retryEnabled", TRUE),
     retryAttempts |-> FieldOr(cfg, "retryAttempts", 3),
     country |-> FieldOr(cfg, "country", "us"),
     includeMetadata |-> FieldOr(cfg, "includeMetadata", FALSE)]

\* new PlayStoreClient(cfg): this.config
PlayStoreClientConfig(cfg, h) ==
    [timeout |-> FieldOr(cfg, "timeout", 10000),
     userAgent |-> FieldOr(cfg, "userAgent", UserAgentPlayStore),
     headers |-> FieldOr(cfg, "headers", Len(h) + 1),
     retryEnabled |-> FieldOr(cfg, "retryEnabled", TRUE),
     retryAttempts |-> FieldOr(cfg, "retryAttempts", 3),
     language |-> FieldOr(cfg, "language", "en"),
     country |-> FieldOr(cfg, "country", "us"),
     includeMetadata |-> FieldOr(cfg, "includeMetadata", FALSE)]

\* axios.create({ timeout, headers: { 'User-Agent': userAgent, ...headers } })
AxiosCreate(cfg, h) ==
    [timeout |-> Get(cfg, "timeout"),
     headers |->
         Spread(IF "userAgent" \in DefKeys(cfg) THEN [k \in {"User-Agent"} |-> cfg.userAgent]
                ELSE Object(EmptyObject, {"User-Agent"}),
                IF "headers" \in DefKeys(cfg) THEN h[cfg.headers] ELSE EmptyObject)]

\* mutant: retryEnabled is ignored
MaxAttemptsOf_IgnoresRetryEnabled(cfg) == cfg.retryAttempts

\* const maxAttempts = this.config.retryEnabled ? this.config.retryAttempts : 1
MaxAttemptsOf(cfg) == IF cfg.retryEnabled THEN cfg.retryAttempts ELSE 1

RECURSIVE Pow2(_)
Pow2(n) == IF n = 0 THEN 1 ELSE 2 * Pow2(n - 1)

\* mutant: the exponent counts the failed attempts from 0
BackoffMs_ZeroIndexed(n) == Pow2(n - 1) * 1000

\* Math.pow(2, attempts) * 1000
BackoffMs(n) == Pow2(n) * 1000

-----------------------------------------------------------------------------
(* AppStoreClient. *)

\* the record getVersion builds from results[0]
AppStoreVersion(app) ==
    [version |-> app.version,
     releaseDate |-> app.currentVersionReleaseDate,
     releaseNotes |-> Some(app.releaseNotes),
     bundleId |-> Some(app.bundleId),
     packageName |-> Undefined]

\* mutant: the emptiness check without trim()
AppValidateBundleId_NoTrim(bundleId) ==
    IF ~IsString(bundleId)
    THEN Some(AppStoreError(AppMsg.bundleIdRequired, OrEmptyString(bundleId), Undefined))
    ELSE IF Len(bundleId.v) = 0
    THEN Some(AppStoreError(AppMsg.bundleIdEmpty, bundleId, Undefined))
    ELSE Undefined

\* getVersion: the two checks before the loop; <<>> when the identifier passes
AppValidateBundleId(bundleId) ==
    IF ~IsString(bundleId)
    THEN Some(AppStoreError(AppMsg.bundleIdRequired, OrEmptyString(bundleId), Undefined))
    ELSE IF Len(Trim(bundleId.v)) = 0
    THEN Some(AppStoreError(AppMsg.bundleIdEmpty, bundleId, Undefined))
    ELSE Undefined

\* getVersion: the try block, given how this.client.get settled
AppTry(bundleId, resp) ==
    IF resp.settled = "rejected" THEN Threw(resp.e)
    ELSE IF resp.data.resultCount = 0
    THEN Threw(AppStoreError(AppMsg.appNotFound \o bundleId.v, bundleId, Some(404)))
    ELSE IF Len(resp.data.results) = 0
    THEN Threw(AppStoreError(AppMsg.invalidResponse \o bundleId.v, bundleId, Undefined))
    ELSE Returned(AppStoreVersion(resp.data.results[1]))

\* error.statusCode && error.statusCode >= 400 && error.statusCode < 500
IsClientStatus(statusCode) ==
    /\ statusCode # Undefined
    /\ statusCode[1] # 0
    /\ statusCode[1] >= 400
    /\ statusCode[1] < 500

\* error.response?.status
ResponseStatus(error) ==
    IF error.response = Undefined THEN Undefined ELSE Some(error.response[1].status)

\* mutant: client errors (4xx) are retried like any other failure
AppCatch_RetriesClientErrors(error, bundleId, attemptsNow, maxAttemptsNow) ==
    IF IsAppStoreError(error) /\ attemptsNow >= maxAttemptsNow
    THEN Threw(error)
    ELSE IF attemptsNow >= maxAttemptsNow
    THEN IF IsAxiosError(error)
         THEN Threw(AppStoreError(AppMsg.failedToFetch \o error.message,
                                  bundleId, ResponseStatus(error)))
         ELSE Threw(NetworkError(AppMsg.networkError \o MessageOrUnknown(error),
                                 ErrorOrUndefined(error)))
    ELSE Retry(BackoffMs(attemptsNow))

\* mutant: a call that has retried reports a NetworkError whatever failed last
AppCatch_NetworkAfterRetry(error, bundleId, attemptsNow, maxAttemptsNow) ==
    IF IsAppStoreError(error) /\ attemptsNow >= maxAttemptsNow /\ attemptsNow = 1
    THEN Threw(error)
    ELSE IF IsAppStoreError(error) /\ IsClientStatus(error.statusCode)
    THEN Threw(error)
    ELSE IF attemptsNow >= maxAttemptsNow
    THEN IF IsAxiosError(error) /\ attemptsNow = 1
         THEN Threw(AppStoreError(AppMsg.failedToFetch \o error.message,
                                  bundleId, ResponseStatus(error)))
         ELSE Threw(NetworkError(AppMsg.networkError \o MessageOrUnknown(error),
                                 ErrorOrUndefined(error)))
    ELSE Retry(BackoffMs(attemptsNow))

\* getVersion: the catch block
AppCatch(error, bundleId, attemptsNow, maxAttemptsNow) ==
    IF IsAppStoreError(error) /\ attemptsNow >= maxAttemptsNow
    THEN Threw(error)
    ELSE IF IsAppStoreError(error) /\ IsClientStatus(error.statusCode)
    THEN Threw(error)
    ELSE IF attemptsNow >= maxAttemptsNow
    THEN IF IsAxiosError(error)
         THEN Threw(AppStoreError(AppMsg.failedToFetch \o error.message,
                                  bundleId, ResponseStatus(error)))
         ELSE Threw(NetworkError(AppMsg.networkError \o MessageOrUnknown(error),
                                 ErrorOrUndefined(error)))
    ELSE Retry(BackoffMs(attemptsNow))

\* getVersion: the throw after the loop
AppFallback(maxAttemptsNow) ==
    Threw(NetworkError(AppMsg.failedAfter \o NumberToString(maxAttemptsNow)
                           \o AppMsg.attempts,
                       Undefined))

\* mutant: every AppStoreError counts as not-found
AppExists_AnyStoreErrorIsFalse(gv) ==
    IF gv.t = "returned" THEN Returned(TRUE)
    ELSE IF IsAppStoreError(gv.e) THEN Returned(FALSE)
    ELSE Threw(gv.e)

\* exists, given how getVersion ended
AppExists(gv) ==
    IF gv.t = "returned" THEN Returned(TRUE)
    ELSE IF IsAppStoreError(gv.e) /\ gv.e.statusCode = Some(404) THEN Returned(FALSE)
    ELSE Threw(gv.e)

\* checkForUpdates: the two checks before the try; <<>> when currentVersion passes
AppValidateCurrentVersion(bundleId, currentVersion) ==
    IF ~IsString(currentVersion)
    THEN Some(AppStoreError(AppMsg.currentVersionRequired, bundleId, Undefined))
    ELSE IF Len(Trim(currentVersion.v)) = 0
    THEN Some(AppStoreError(AppMsg.currentVersionEmpty, bundleId, Undefined))
    ELSE Undefined

\* mutant: updateDetails is filled in whether or not an update is available
AppUpdateCheckResult_AlwaysDetails(currentVersion, latestAppInfo) ==
    LET latestVersion == latestAppInfo.version
        versionComparison == compareVersions(currentVersion.v, latestVersion)
    IN  [updateAvailable |-> versionComparison < 0,
         currentVersion |-> currentVersion.v,
         latestVersion |-> latestVersion,
         versionComparison |-> versionComparison,
         updateDetails |-> Some(latestAppInfo)]

\* checkForUpdates: the result built in the try block from getVersion's record
AppUpdateCheckResult(currentVersion, latestAppInfo) ==
    LET latestVersion == latestAppInfo.version
        versionComparison == compareVersions(currentVersion.v, latestVersion)
        updateAvailable == versionComparison < 0
    IN  [updateAvailable |-> updateAvailable,
         currentVersion |-> currentVersion.v,
         latestVersion |-> latestVersion,
         versionComparison |-> versionComparison,
         updateDetails |-> IF updateAvailable THEN Some(latestAppInfo) ELSE Undefined]

\* checkForUpdates: the try/catch around getVersion
AppCheckForUpdates(currentVersion, gv) ==
    IF gv.t = "returned" THEN Returned(AppUpdateCheckResult(currentVersion, gv.v))
    ELSE IF IsAppStoreError(gv.e) THEN Threw(gv.e)
    ELSE Threw(NetworkError(AppMsg.failedToCheck \o MessageOrUnknown(gv.e),
                            ErrorOrUndefined(gv.e)))

\* search: the check before the try; <<>> when the term passes
AppValidateTerm(term) ==
    IF Falsy(term) \/ ~IsString(term)
    THEN Some(AppStoreError(AppMsg.searchTermRequired, JsStr(<<>>), Undefined))
    ELSE Undefined

\* search: the try/catch, given how this.client.get settled
AppSearch(term, resp) ==
    IF resp.settled = "resolved"
    THEN Returned([i \in 1..Len(resp.data.results) |-> AppStoreVersion(resp.data.results[i])])
    ELSE IF IsAxiosError(resp.e)
    THEN Threw(AppStoreError(AppMsg.failedToSearch \o resp.e.message, term,
                             ResponseStatus(resp.e)))
    ELSE Threw(NetworkError(AppMsg.networkErrorSearching \o MessageOrUnknown(resp.e),
                            ErrorOrUndefined(resp.e)))

-----------------------------------------------------------------------------
(* PlayStoreClient. *)

\* /^[a-zA-Z][a-zA-Z0-9_]*(\.[a-zA-Z][a-zA-Z0-9_]*)+$/ as the automaton it denotes:
\* st is "start" (a segment must begin), "seg" (inside a segment);
\* dots counts the '.' read so far
RECURSIVE PackageNameScan(_, _, _, _)
PackageNameScan(s, i, st, dots) ==
    IF i > Len(s) THEN st = "seg" /\ dots >= 1
    ELSE IF st = "start"
    THEN s[i] \in Letters /\ PackageNameScan(s, i + 1, "seg", dots)
    ELSE IF s[i] = "."
    THEN PackageNameScan(s, i + 1, "start", dots + 1)
    ELSE s[i] \in (Letters \cup Digits \cup {"_"})
         /\ PackageNameScan(s, i + 1, "seg", dots)

\* mutant: the pattern with (...)* in place of (...)+, one segment being enough
PackageNamePatternTest_OneSegment(s) == PackageNameScan(s, 1, "start", 1)

\* pattern.test(packageName)
PackageNamePatternTest(s) == PackageNameScan(s, 1, "start", 0)

\* getVersion: the three checks before the loop; <<>> when the identifier passes
PlayValidatePackageName(packageName) ==
    IF ~IsString(packageName)
    THEN Some(PlayStoreError(PlayMsg.packageNameRequired, OrEmptyString(packageName),
                             Undefined))
    ELSE IF Len(Trim(packageName.v)) = 0
    THEN Some(PlayStoreError(PlayMsg.packageNameEmpty, packageName, Undefined))
    ELSE IF ~PackageNamePatternTest(packageName.v)
    THEN Some(PlayStoreError(PlayMsg.invalidFormat \o packageName.v
                                 \o PlayMsg.expectedFormat,
                             packageName, Undefined))
    ELSE Undefined

\* formatPlayStoreDate: date is <<>> (undefined) or <<ms>> (a timestamp)
FormatPlayStoreDate(date) ==
    IF date = Undefined \/ date[1] = 0
    THEN [at |-> "now"]
    ELSE [at |-> "timestamp", ms |-> date[1]]

\* appDetails.version || 'Unknown'
VersionOrUnknown(version) ==
    IF version = Undefined \/ version[1] = <<>> THEN SENTINEL_Unknown ELSE version[1]

\* mutant: the record names the app under bundleId as well
PlayStoreVersion_AlsoBundleId(packageName, appDetails) ==
    [version |-> VersionOrUnknown(appDetails.version),
     releaseDate |-> FormatPlayStoreDate(appDetails.updated),
     releaseNotes |-> appDetails.recentChanges,
     bundleId |-> Some(packageName.v),
     packageName |-> Some(packageName.v)]

\* the record getVersion builds from appDetails
PlayStoreVersion(packageName, appDetails) ==
    [version |-> VersionOrUnknown(appDetails.version),
     releaseDate |-> FormatPlayStoreDate(appDetails.updated),
     releaseNotes |-> appDetails.recentChanges,
     bundleId |-> Undefined,
     packageName |-> Some(packageName.v)]

\* getVersion: the try block, given how gplay.app settled
PlayTry(packageName, resp) ==
    IF resp.settled = "rejected" THEN Threw(resp.e)
    ELSE IF resp.data = JsNull
    THEN Threw(PlayStoreError(PlayMsg.appNotFound \o packageName.v, packageName,
                              Some(404)))
    ELSE Returned(PlayStoreVersion(packageName, resp.data))

\* JSON.stringify of a thrown value that is not an Error
JsonStringify(x) == IF x.t = "string" THEN <<"\"">> \o x.v \o <<"\"">> ELSE x.v

\* mutant: the network test comes before the not-found test
PlayCatch_NetworkFirst(error, packageName, attemptsNow, maxAttemptsNow) ==
    IF attemptsNow >= maxAttemptsNow
    THEN IF IsError(error)
         THEN IF Includes(error.message, PlayMsg.network)
                  \/ Includes(error.message, PlayMsg.timeout)
              THEN Threw(NetworkError(PlayMsg.networkError \o error.message,
                                      Some(error)))
              ELSE IF Includes(error.message, PlayMsg.notFound)
                       \/ Includes(error.message, PlayMsg.code404)
              THEN Threw(PlayStoreError(PlayMsg.appNotFound \o packageName.v,
                                        packageName, Some(404)))
              ELSE Threw(PlayStoreError(PlayMsg.failedToFetch \o error.message,
                                        packageName, Undefined))
         ELSE Threw(NetworkError(PlayMsg.unknownErrorWhile \o JsonStringify(error),
                                 ErrorOrUndefined(error)))
    ELSE Retry(BackoffMs(attemptsNow))

\* getVersion: the catch block
PlayCatch(error, packageName, attemptsNow, maxAttemptsNow) ==
    IF attemptsNow >= maxAttemptsNow
    THEN IF IsError(error)
         THEN IF Includes(error.message, PlayMsg.notFound)
                  \/ Includes(error.message, PlayMsg.code404)
              THEN Threw(PlayStoreError(PlayMsg.appNotFound \o packageName.v,
                                        packageName, Some(404)))
              ELSE IF Includes(error.message, PlayMsg.network)
                       \/ Includes(error.message, PlayMsg.timeout)
              THEN Threw(NetworkError(PlayMsg.networkError \o error.message,
                                      Some(error)))
              ELSE Threw(PlayStoreError(PlayMsg.failedToFetch \o error.message,
                                        packageName, Undefined))
         ELSE Threw(NetworkError(PlayMsg.unknownErrorWhile \o JsonStringify(error),
                                 ErrorOrUndefined(error)))
    ELSE Retry(BackoffMs(attemptsNow))

\* getVersion: the throw after the loop
PlayFallback(maxAttemptsNow) ==
    Threw(NetworkError(PlayMsg.failedAfter \o NumberToString(maxAttemptsNow)
                           \o PlayMsg.attempts,
                       Undefined))

\* exists, given how getVersion ended
PlayExists(gv) ==
    IF gv.t = "returned" THEN Returned(TRUE)
    ELSE IF IsPlayStoreError(gv.e) /\ gv.e.statusCode = Some(404) THEN Returned(FALSE)
    ELSE Threw(gv.e)

\* mutant: the emptiness check without trim()
PlayValidateCurrentVersion_NoTrim(packageName, currentVersion) ==
    IF ~IsString(currentVersion)
    THEN Some(PlayStoreError(PlayMsg.currentVersionRequired, packageName, Undefined))
    ELSE IF Len(currentVersion.v) = 0
    THEN Some(PlayStoreError(PlayMsg.currentVersionEmpty, packageName, Undefined))
    ELSE Undefined

\* checkForUpdates: the two checks before the try; <<>> when currentVersion passes
PlayValidateCurrentVersion(packageName, currentVersion) ==
    IF ~IsString(currentVersion)
    THEN Some(PlayStoreError(PlayMsg.currentVersionRequired, packageName, Undefined))
    ELSE IF Len(Trim(currentVersion.v)) = 0
    THEN Some(PlayStoreError(PlayMsg.currentVersionEmpty, packageName, Undefined))
    ELSE Undefined

\* mutant: the two versions are compared the other way round
PlayUpdateCheckResult_LatestFirst(currentVersion, latestAppInfo) ==
    LET latestVersion == latestAppInfo.version
        versionComparison == compareVersions(latestVersion, currentVersion.v)
        updateAvailable == versionComparison < 0
    IN  [updateAvailable |-> updateAvailable,
         currentVersion |-> currentVersion.v,
         latestVersion |-> latestVersion,
         versionComparison |-> versionComparison,
         updateDetails |-> IF updateAvailable THEN Some(latestAppInfo) ELSE Undefined]

\* checkForUpdates: the result built in the try block from getVersion's record
PlayUpdateCheckResult(currentVersion, latestAppInfo) ==
    LET latestVersion == latestAppInfo.version
        versionComparison == compareVersions(currentVersion.v, latestVersion)
        updateAvailable == versionComparison < 0
    IN  [updateAvailable |-> updateAvailable,
         currentVersion |-> currentVersion.v,
         latestVersion |-> latestVersion,
         versionComparison |-> versionComparison,
         updateDetails |-> IF updateAvailable THEN Some(latestAppInfo) ELSE Undefined]

\* mutant: the catch wraps every error, PlayStoreError included
PlayCheckForUpdates_WrapsAll(currentVersion, gv) ==
    IF gv.t = "returned" THEN Returned(PlayUpdateCheckResult(currentVersion, gv.v))
    ELSE Threw(NetworkError(PlayMsg.failedToCheck \o MessageOrUnknown(gv.e),
                            ErrorOrUndefined(gv.e)))

\* checkForUpdates: the try/catch around getVersion
PlayCheckForUpdates(currentVersion, gv) ==
    IF gv.t = "returned" THEN Returned(PlayUpdateCheckResult(currentVersion, gv.v))
    ELSE IF IsPlayStoreError(gv.e) THEN Threw(gv.e)
    ELSE Threw(NetworkError(PlayMsg.failedToCheck \o MessageOrUnknown(gv.e),
                            ErrorOrUndefined(gv.e)))

\* search: the check before the try; <<>> when the term passes
PlayValidateTerm(term) ==
    IF Falsy(term) \/ ~IsString(term)
    THEN Some(PlayStoreError(PlayMsg.searchTermRequired, JsStr(<<>>), Undefined))
    ELSE Undefined

\* search: the try/catch, given how gplay.search settled
PlaySearch(term, resp) ==
    IF resp.settled = "resolved"
    THEN Returned([i \in 1..Len(resp.data) |->
                       PlayStoreVersion(JsStr(resp.data[i].appId), resp.data[i])])
    ELSE Threw(NetworkError(PlayMsg.networkErrorSearching \o MessageOrUnknown(resp.e),
                            ErrorOrUndefined(resp.e)))

-----------------------------------------------------------------------------
(* Inputs of the calls and answers of the two backends. *)

Operations == {"getVersion", "exists", "checkForUpdates"}

JsUndefined == [t |-> "undefined", v |-> <<"u", "n", "d", "e", "f", "i", "n", "e", "d">>]

IdComApp == JsStr(<<"c", "o", "m", ".", "a", "p", "p">>)

IdInvalidPackage ==
    JsStr(<<"i", "n", "v", "a", "l", "i", "d", "-", "p", "a", "c", "k", "a", "g", "e">>)

\* identifier arguments: null, 123, '', '  ', 'invalid-package', 'com.app'
Identifiers ==
    {JsNull, JsNumber123, JsStr(<<>>), JsStr(<<" ", " ">>), IdInvalidPackage, IdComApp}

V_1_0 == <<"1", ".", "0">>

V_1_2_0 == <<"1", ".", "2", ".", "0">>

V_1_10_0 == <<"1", ".", "1", "0", ".", "0">>

\* currentVersion arguments: null, '', ' ', '1.0', '1.2.0'
CurrentVersions == {JsNull, JsStr(<<>>), JsStr(<<" ">>), JsStr(V_1_0), JsStr(V_1_2_0)}

\* versions the stores report
BackendVersions == {V_1_0, V_1_10_0}

\* message texts of errors the backends throw
BackendMsg ==
    [boom |->
         <<"b", "o", "o", "m">>,
     axiosTimeout |->
         <<"t", "i", "m", "e", "o", "u", "t", " ", "o", "f", " ", "1", "0", "0", "0", "0", "m", "s", " ", "e", "x", "c", "e", "e", "d", "e", "d">>,
     axiosStatus |->
         <<"R", "e", "q", "u", "e", "s", "t", " ", "f", "a", "i", "l", "e", "d", " ", "w", "i", "t", "h", " ", "s", "t", "a", "t", "u", "s", " ", "c", "o", "d", "e", " ">>,
     gplayNotFound |->
         <<"A", "p", "p", " ", "n", "o", "t", " ", "f", "o", "u", "n", "d", " ", "(", "4", "0", "4", ")">>,
     networkDown |->
         <<"n", "e", "t", "w", "o", "r", "k", " ", "d", "o", "w", "n">>,
     socketTimeout |->
         <<"s", "o", "c", "k", "e", "t", " ", "t", "i", "m", "e", "o", "u", "t">>,
     timeoutNotFound |->
         <<"t", "i", "m", "e", "o", "u", "t", ":", " ", "h", "o", "s", "t", " ", "n", "o", "t", " ", "f", "o", "u", "n", "d">>]

\* a thrown value that is not an Error
ThrownString == JsStr(<<"o", "o", "p", "s">>)

\* one entry of AppStoreResponse.results
AppStoreApp(bundleId, version) ==
    [bundleId |-> bundleId, version |-> version,
     currentVersionReleaseDate |-> "2024-01-02T03:04:05Z",
     releaseNotes |-> "Bug fixes"]

\* how this.client.get(url) can settle
AppStoreBackend(bundleId) ==
    {Resolved([resultCount |-> 0, results |-> <<>>]),
     Resolved([resultCount |-> 1, results |-> <<>>])}
    \cup {Resolved([resultCount |-> 1, results |-> <<AppStoreApp(bundleId.v, v)>>]) :
              v \in BackendVersions}
    \cup {Rejected(AxiosError(BackendMsg.axiosStatus \o NumberToString(st),
                              Some([status |-> st]))) : st \in {404, 500}}
    \cup {Rejected(AxiosError(BackendMsg.axiosTimeout, Undefined)),
          Rejected(GenericError(BackendMsg.boom)),
          Rejected(ThrownString)}

\* what gplay.app resolves with for an app
GplayApp(version) ==
    [version |-> version, updated |-> Some(1700000000), recentChanges |-> Some("Bug fixes")]

\* how gplay.app({appId, lang, country}) can settle
PlayStoreBackend(packageName) ==
    {Resolved(JsNull)}
    \cup {Resolved(GplayApp(v)) : v \in {Some(x) : x \in BackendVersions} \cup {Undefined}}
    \cup {Rejected(GenericError(m)) :
              m \in {BackendMsg.gplayNotFound, BackendMsg.networkDown, BackendMsg.socketTimeout,
                    BackendMsg.timeoutNotFound, BackendMsg.boom}}
    \cup {Rejected(ThrownString)}

Backend(s, id) == IF s = "app" THEN AppStoreBackend(id) ELSE PlayStoreBackend(id)

\* how the search request can settle: this.client.get(url) of the App Store
\* client, gplay.search({...}) of the Play Store client
SearchBackend(s) ==
    LET IdOrgApp == <<"o", "r", "g", ".", "a", "p", "p">>
    IN
    IF s = "app"
    THEN {Resolved([resultCount |-> 0, results |-> <<>>]),
          Resolved([resultCount |-> 1, results |-> <<AppStoreApp(IdComApp.v, V_1_0)>>]),
          Resolved([resultCount |-> 2,
                    results |-> <<AppStoreApp(IdComApp.v, V_1_0),
                                  AppStoreApp(IdOrgApp, V_1_10_0)>>]),
          Rejected(AxiosError(BackendMsg.axiosStatus \o NumberToString(500),
                              Some([status |-> 500]))),
          Rejected(AxiosError(BackendMsg.axiosTimeout, Undefined)),
          Rejected(GenericError(BackendMsg.boom)),
          Rejected(ThrownString)}
    ELSE {Resolved(<<>>),
          Resolved(<<[appId |-> IdComApp.v] @@ GplayApp(Some(V_1_0))>>),
          Resolved(<<[appId |-> IdComApp.v] @@ GplayApp(Undefined),
                     [appId |-> IdOrgApp] @@ GplayApp(Some(V_1_10_0))>>),
          Rejected(GenericError(BackendMsg.networkDown)),
          Rejected(ThrownString)}

\* configurations the clients are constructed with
ConstructorConfigs == {EmptyObject, [retryEnabled |-> FALSE, retryAttempts |-> 1]}

\* partial configurations passed to updateConfig
ConfigUpdates ==
    {[retryEnabled |-> b] : b \in BOOLEAN}
    \cup {[retryAttempts |-> n] : n \in 0..MaxRetryAttempts}

-----------------------------------------------------------------------------
(* The calls: one public operation in flight at a time. *)

ValidateId(s, id) ==
    IF s = "app" THEN AppValidateBundleId(id) ELSE PlayValidatePackageName(id)

ValidateCurrentVersion(s, id, cur) ==
    IF s = "app" THEN AppValidateCurrentVersion(id, cur)
    ELSE PlayValidateCurrentVersion(id, cur)

TryBlock(s, id, resp) == IF s = "app" THEN AppTry(id, resp) ELSE PlayTry(id, resp)

CatchBlock(s, error, id, a, m) ==
    IF s = "app" THEN AppCatch(error, id, a, m) ELSE PlayCatch(error, id, a, m)

Fallback(s, m) == IF s = "app" THEN AppFallback(m) ELSE PlayFallback(m)

\* what the public operation makes of getVersion's outcome
OperationOutcome(o, s, cur, gv) ==
    IF o = "getVersion" THEN gv
    ELSE IF o = "exists" THEN (IF s = "app" THEN AppExists(gv) ELSE PlayExists(gv))
    ELSE IF s = "app" THEN AppCheckForUpdates(cur, gv)
    ELSE PlayCheckForUpdates(cur, gv)

\* mutant: the settings are those read when the call began
LookupRequest_AtStart(s, id, n) ==
    LET cfg == IF cfgAtStart = Undefined THEN config[s] ELSE cfgAtStart[1]
    IN  IF s = "app"
        THEN [e |-> "lookup", attempt |-> n, bundleId |-> id.v,
              country |-> cfg.country, client |-> axiosClient]
        ELSE [e |-> "lookup", attempt |-> n, appId |-> id.v,
              lang |-> cfg.language, country |-> cfg.country]

\* the request of one backend lookup, built from this.config when it is issued
LookupRequest(s, id, n) ==
    IF s = "app"
    THEN [e |-> "lookup", attempt |-> n, bundleId |-> id.v,
          country |-> config[s].country, client |-> axiosClient]
    ELSE [e |-> "lookup", attempt |-> n, appId |-> id.v,
          lang |-> config[s].language, country |-> config[s].country]

BackoffWait(ms) == [e |-> "wait", ms |-> ms]

\* getVersion ends with gv, and the public operation o with what it makes of it
Finish(o, s, cur, gv) ==
    /\ gvOutcome' = gv
    /\ outcome' = OperationOutcome(o, s, cur, gv)
    /\ pc' = "done"

\* while (attempts < maxAttempts) { attempts++; ... await lookup
LoopHead(o, s, id, cur, a, m, logNow) ==
    IF a < m
    THEN /\ attempts' = a + 1
         /\ log' = Append(logNow, LookupRequest(s, id, a + 1))
         /\ pc' = "lookup"
         /\ gvOutcome' = NoOutcome
         /\ outcome' = NoOutcome
    ELSE /\ attempts' = a
         /\ log' = logNow
         /\ Finish(o, s, cur, Fallback(s, m))

\* the lookup failed in transport: it was rejected, and not with the message of
\* a missing app that PlayStoreClient's catch block looks for
TransportFailure(s, resp) ==
    /\ resp.settled = "rejected"
    /\ ~(s = "play" /\ IsError(resp.e)
           /\ (Includes(resp.e.message, PlayMsg.notFound)
                 \/ Includes(resp.e.message, PlayMsg.code404)))

\* a caller invokes getVersion, exists or checkForUpdates: everything up to the
\* first await runs at once
Call(o, s, id, cur) ==
    /\ pc = "idle"
    /\ op' = o
    /\ store' = s
    /\ argId' = id
    /\ argCur' = cur
    /\ lastResp' = NoResponse
    /\ transportOnly' = TRUE
    /\ UNCHANGED <<config, axiosClient, cmpVars, cfgVars, other>>
    /\ IF o = "checkForUpdates" /\ ValidateCurrentVersion(s, id, cur) # Undefined
       THEN /\ gvOutcome' = NoOutcome
            /\ outcome' = Threw(ValidateCurrentVersion(s, id, cur)[1])
            /\ pc' = "done"
            /\ UNCHANGED <<maxAttempts, attempts, cfgAtStart, log>>
       ELSE IF ValidateId(s, id) # Undefined
       THEN /\ Finish(o, s, cur, Threw(ValidateId(s, id)[1]))
            /\ UNCHANGED <<maxAttempts, attempts, cfgAtStart, log>>
       ELSE /\ maxAttempts' = MaxAttemptsOf(config[s])
            /\ cfgAtStart' = Some(config[s])
            /\ LoopHead(o, s, id, cur, 0, MaxAttemptsOf(config[s]), <<>>)

\* the backend lookup in flight settles: the rest of the try block, or the catch
LookupSettles(resp) ==
    /\ pc = "lookup"
    /\ lastResp' = resp
    /\ transportOnly' = (transportOnly /\ TransportFailure(store, resp))
    /\ UNCHANGED <<config, axiosClient, cmpVars, cfgVars, other, op, store, argId, argCur,
                   maxAttempts, attempts, cfgAtStart>>
    /\ LET tried == TryBlock(store, argId, resp)
           caught == CatchBlock(store, tried.e, argId, attempts, maxAttempts)
       IN  IF tried.t = "returned"
           THEN /\ Finish(op, store, argCur, tried)
                /\ log' = log
           ELSE IF caught.t = "threw"
           THEN /\ Finish(op, store, argCur, caught)
                /\ log' = log
           ELSE /\ pc' = "backoff"
                /\ log' = Append(log, BackoffWait(caught.ms))
                /\ UNCHANGED <<gvOutcome, outcome>>

\* mutant: the bound is computed again from this.config after each wait
BackoffElapses_RereadsBound ==
    /\ pc = "backoff"
    /\ maxAttempts' = MaxAttemptsOf(config[store])
    /\ UNCHANGED <<config, axiosClient, cmpVars, cfgVars, other, op, store, argId, argCur,
                   cfgAtStart, lastResp, transportOnly>>
    /\ LoopHead(op, store, argId, argCur, attempts, MaxAttemptsOf(config[store]), log)

\* the backoff timer fires: back to the loop condition
BackoffElapses ==
    /\ pc = "backoff"
    /\ UNCHANGED <<config, axiosClient, cmpVars, cfgVars, other, op, store, argId, argCur,
                   maxAttempts, cfgAtStart, lastResp, transportOnly>>
    /\ LoopHead(op, store, argId, argCur, attempts, maxAttempts, log)

\* a caller invokes search(term, limit) / search(term, { num }): everything up to
\* the await runs at once
Search(s, term, limit) ==
    /\ pc = "idle"
    /\ op' = "search"
    /\ store' = s
    /\ argId' = term
    /\ UNCHANGED <<argCur, maxAttempts, attempts, cfgAtStart, lastResp, transportOnly,
                   gvOutcome, config, axiosClient, cmpVars, cfgVars, other>>
    /\ LET invalid == IF s = "app" THEN AppValidateTerm(term) ELSE PlayValidateTerm(term)
           \* the request, built from this.config: limit = 50 and options.num || 50
           request ==
               IF s = "app"
               THEN [e |-> "search", term |-> term.v, country |-> config[s].country,
                     limit |-> IF limit = Undefined THEN 50 ELSE limit[1],
                     client |-> axiosClient]
               ELSE [e |-> "search", term |-> term.v, lang |-> config[s].language,
                     country |-> config[s].country,
                     num |-> IF limit = Undefined \/ limit[1] = 0 THEN 50 ELSE limit[1],
                     fullDetail |-> FALSE]
       IN  IF invalid # Undefined
           THEN /\ outcome' = Threw(invalid[1])
                /\ pc' = "done"
                /\ log' = log
           ELSE /\ outcome' = NoOutcome
                /\ pc' = "search"
                /\ log' = <<request>>

\* the search request in flight settles
SearchSettles(resp) ==
    /\ pc = "search"
    /\ outcome' = IF store = "app" THEN AppSearch(argId, resp) ELSE PlaySearch(argId, resp)
    /\ pc' = "done"
    /\ UNCHANGED <<op, store, argId, argCur, maxAttempts, attempts, cfgAtStart, log, lastResp,
                   transportOnly, gvOutcome, config, axiosClient, cmpVars, cfgVars, other>>

\* the caller has taken the result; the next call may start
CallEnds ==
    /\ pc = "done"
    /\ pc' = "idle"
    /\ op' = "none"
    /\ store' = "none"
    /\ argId' = JsUndefined
    /\ argCur' = JsUndefined
    /\ maxAttempts' = 0
    /\ attempts' = 0
    /\ cfgAtStart' = Undefined
    /\ log' = <<>>
    /\ lastResp' = NoResponse
    /\ transportOnly' = TRUE
    /\ gvOutcome' = NoOutcome
    /\ outcome' = NoOutcome
    /\ UNCHANGED <<config, axiosClient, cmpVars, cfgVars, other>>

\* what belongs to one call and to no other: its arguments, the locals
\* attempts and maxAttempts of getVersion, and where it stands
Locals ==
    [pc |-> pc, op |-> op, store |-> store, argId |-> argId, argCur |-> argCur,
     maxAttempts |-> maxAttempts, attempts |-> attempts, cfgAtStart |-> cfgAtStart,
     log |-> log, lastResp |-> lastResp, transportOnly |-> transportOnly,
     gvOutcome |-> gvOutcome, outcome |-> outcome]

\* mutant: attempts is one counter of the client, not a local of each call
Resume_SharedCounter ==
    /\ other' = Locals
    /\ pc' = other.pc
    /\ op' = other.op
    /\ store' = other.store
    /\ argId' = other.argId
    /\ argCur' = other.argCur
    /\ maxAttempts' = other.maxAttempts
    /\ attempts' = attempts
    /\ cfgAtStart' = other.cfgAtStart
    /\ log' = other.log
    /\ lastResp' = other.lastResp
    /\ transportOnly' = other.transportOnly
    /\ gvOutcome' = other.gvOutcome
    /\ outcome' = other.outcome
    /\ UNCHANGED <<config, axiosClient, cmpVars, cfgVars>>

\* the event loop turns from the call it was running, now at an await, to the
\* other call (or to the caller, who may start one): each finds its own
\* arguments and locals, and both share this.config and this.client
Resume ==
    /\ other' = Locals
    /\ pc' = other.pc
    /\ op' = other.op
    /\ store' = other.store
    /\ argId' = other.argId
    /\ argCur' = other.argCur
    /\ maxAttempts' = other.maxAttempts
    /\ attempts' = other.attempts
    /\ cfgAtStart' = other.cfgAtStart
    /\ log' = other.log
    /\ lastResp' = other.lastResp
    /\ transportOnly' = other.transportOnly
    /\ gvOutcome' = other.gvOutcome
    /\ outcome' = other.outcome
    /\ UNCHANGED <<config, axiosClient, cmpVars, cfgVars>>

\* the argument as the caller passes it: a headers literal is a new object
Passed(arg, h) ==
    IF "headers" \in DefKeys(arg) THEN [arg EXCEPT !.headers = Len(h) + 1] ELSE arg

\* the heap with that new object
HeapWithArgument(arg, h) ==
    IF "headers" \in DefKeys(arg) THEN Append(h, arg.headers) ELSE h

\* mutant: the new configuration replaces the old one
UpdatedConfig_Replaces(cfg, newConfig) == newConfig

\* updateConfig: this.config = { ...this.config, ...newConfig }
UpdatedConfig(cfg, newConfig) == Spread(cfg, newConfig)

\* mutant: the new headers are merged into the headers object in place
UpdatedHeap_MergesHeaders(cfg, newConfig, h) ==
    IF "headers" \in DefKeys(cfg) /\ "headers" \in DefKeys(newConfig)
    THEN [h EXCEPT ![cfg.headers] = Spread(@, h[newConfig.headers])]
    ELSE h

\* updateConfig writes to no object that exists already
UpdatedHeap(cfg, newConfig, h) == h

\* client.updateConfig(newConfig) on one store client
UpdateConfig(s, newConfig) ==
    /\ config' = [config EXCEPT ![s] = UpdatedConfig(config[s], Passed(newConfig, heap))]
    /\ heap' = UpdatedHeap(config[s], Passed(newConfig, heap),
                           HeapWithArgument(newConfig, heap))
    /\ axiosClient' = IF s = "app" THEN AxiosCreate(config'[s], heap') ELSE axiosClient
    /\ UNCHANGED <<callVars, cmpVars, facade>>

\* no configuration history is kept
NoHistory ==
    /\ held = Undefined
    /\ heldAtReturn = Undefined
    /\ lastCfgOp = Undefined
    /\ before = Undefined
    /\ cfgOps = 0

\* two clients built on their own: new AppStoreClient(a), new PlayStoreClient(p)
StandaloneClients(a, p) ==
    /\ config = [app |-> AppStoreClientConfig(a, <<>>),
                 play |-> PlayStoreClientConfig(p, HeapAfterConstructor(a, <<>>))]
    /\ heap = HeapAfterConstructor(p, HeapAfterConstructor(a, <<>>))
    /\ axiosClient = AxiosCreate(config.app, heap)
    /\ facade = EmptyObject

IdleCall ==
    /\ pc = "idle"
    /\ op = "none"
    /\ store = "none"
    /\ argId = JsUndefined
    /\ argCur = JsUndefined
    /\ maxAttempts = 0
    /\ attempts = 0
    /\ cfgAtStart = Undefined
    /\ log = <<>>
    /\ lastResp = NoResponse
    /\ transportOnly = TRUE
    /\ gvOutcome = NoOutcome
    /\ outcome = NoOutcome
    /\ other = Locals

Init ==
    /\ \E a \in ConstructorConfigs, p \in ConstructorConfigs : StandaloneClients(a, p)
    /\ NoHistory
    /\ IdleCall
    /\ cmpA = <<>>
    /\ cmpB = <<>>
    /\ cmpRes = Undefined

Next ==
    \/ \E o \in Operations, s \in Stores, id \in Identifiers :
           \E cur \in IF o = "checkForUpdates" THEN CurrentVersions ELSE {JsUndefined} :
               Call(o, s, id, cur)
    \/ \E resp \in Backend(store, argId) : LookupSettles(resp)
    \/ BackoffElapses
    \/ \E s \in Stores, term \in Identifiers, limit \in {Undefined, Some(5)} :
           Search(s, term, limit)
    \/ \E resp \in SearchBackend(store) : SearchSettles(resp)
    \/ CallEnds
    \/ \E s \in Stores, newConfig \in ConfigUpdates :
           UpdateConfig(s, newConfig) /\ UNCHANGED histVars

Spec == Init /\ [][Next]_vars

\* every backend lookup settles (the promise awaited resolves or rejects) and
\* every backoff timer fires
SpecLive ==
    /\ Spec
    /\ WF_vars(\E resp \in Backend(store, argId) : LookupSettles(resp))
    /\ WF_vars(BackoffElapses)

-----------------------------------------------------------------------------
(* compareVersions on its own: the arguments are drawn from every string over *)
(* VersionAlphabet up to MaxLen and from the named examples.                 *)

VersionAlphabet == {"0", "1", ".", "a"}

RECURSIVE StringsUpTo(_)
StringsUpTo(n) ==
    IF n = 0 THEN {<<>>}
    ELSE LET shorter == StringsUpTo(n - 1)
         IN  shorter \cup {Append(s, c) : s \in shorter, c \in VersionAlphabet}

\* 2^53 and 2^53 + 1 as build numbers
V_Build_2p53 ==
    <<"1", ".", "9", "0", "0", "7", "1", "9", "9", "2", "5", "4", "7", "4", "0", "9", "9", "2">>

V_Build_2p53_1 ==
    <<"1", ".", "9", "0", "0", "7", "1", "9", "9", "2", "5", "4", "7", "4", "0", "9", "9", "3">>

VersionExamples ==
    {SENTINEL_Unknown, SENTINEL_VARY, V_1_0, V_1_2_0, V_1_10_0,
     <<"1", ".", "0", ".", "0">>, <<"v", "2", ".", "1", "0">>, <<"2", ".", "9">>,
     V_Build_2p53, V_Build_2p53_1}

VersionInputs == StringsUpTo(MaxLen) \cup VersionExamples

InitCmp ==
    /\ StandaloneClients(EmptyObject, EmptyObject)
    /\ NoHistory
    /\ IdleCall
    /\ cmpA \in VersionInputs
    /\ cmpB \in VersionInputs
    /\ cmpRes = Undefined

\* compareVersions(cmpA, cmpB) is called
Compare ==
    /\ cmpRes = Undefined
    /\ cmpRes' = Some(compareVersions(cmpA, cmpB))
    /\ UNCHANGED <<config, axiosClient, callVars, cmpA, cmpB, cfgVars>>

NextCmp == Compare

SpecCmp == InitCmp /\ [][NextCmp]_vars

-----------------------------------------------------------------------------
(* The facade NodeMaw: one shared configuration, two store clients. *)

\* the facade's default user agent, the token replace() looks for and the tokens
\* it puts in; user agents a caller may configure
Agent ==
    [nodeMaw |-> <<"n", "o", "d", "e", "-", "m", "a", "w", "/", "1", ".", "0", ".", "0">>,
     token |-> <<"n", "o", "d", "e", "-", "m", "a", "w">>,
     app |->
         <<"n", "o", "d", "e", "-", "m", "a", "w", "-", "a", "p", "p", "s", "t", "o", "r", "e">>,
     play |->
         <<"n", "o", "d", "e", "-", "m", "a", "w", "-", "p", "l", "a", "y", "s", "t", "o", "r", "e">>,
     nodeMaw2 |-> <<"n", "o", "d", "e", "-", "m", "a", "w", "/", "2", ".", "0", ".", "0">>,
     myAgent |-> <<"m", "y", "-", "a", "g", "e", "n", "t", "/", "2", ".", "0">>,
     custom |-> <<"c", "u", "s", "t", "o", "m", "-", "a", "g", "e", "n", "t">>]

\* str.replace(pattern, by) with a string pattern: the first occurrence only
RECURSIVE Replace(_, _, _)
Replace(str, pattern, by) ==
    IF Len(str) < Len(pattern) THEN str
    ELSE IF SubSeq(str, 1, Len(pattern)) = pattern
    THEN by \o SubSeq(str, Len(pattern) + 1, Len(str))
    ELSE <<Head(str)>> \o Replace(Tail(str), pattern, by)

\* new NodeMaw(cfg): this.config
NodeMawConfig(cfg, h) ==
    [timeout |-> FieldOr(cfg, "timeout", 10000),
     userAgent |-> FieldOr(cfg, "userAgent", Agent.nodeMaw),
     headers |-> FieldOr(cfg, "headers", Len(h) + 1),
     retryEnabled |-> FieldOr(cfg, "retryEnabled", TRUE),
     retryAttempts |-> FieldOr(cfg, "retryAttempts", 3)]

\* { ...this.config, userAgent: this.config.userAgent.replace('node-maw', token),
\*   ...config.appStore }
FacadeStoreConfig(this, token, override) ==
    Spread(Spread(this, [userAgent |-> Replace(this.userAgent, Agent.token, token)]),
           override)

\* new NodeMaw(arg): the facade's configuration and the two clients it builds
FacadeClients(arg) ==
    LET cfg == Passed(arg, <<>>)
        h0 == HeapWithArgument(arg, <<>>)
        this == NodeMawConfig(cfg, h0)
        h1 == HeapAfterConstructor(cfg, h0)
        appStoreConfig == FacadeStoreConfig(this, Agent.app, FieldOr(cfg, "appStore", EmptyObject))
        h2 == HeapAfterConstructor(appStoreConfig, h1)
        playStoreConfig ==
            FacadeStoreConfig(this, Agent.play, FieldOr(cfg, "playStore", EmptyObject))
    IN  /\ facade = this
        /\ config = [app |-> AppStoreClientConfig(appStoreConfig, h1),
                     play |-> PlayStoreClientConfig(playStoreConfig, h2)]
        /\ heap = HeapAfterConstructor(playStoreConfig, h2)
        /\ axiosClient = AxiosCreate(config.app, heap)

\* getConfig(): return { ...this.config }
GetConfigOf(cfg) == Spread(EmptyObject, cfg)

\* a configuration with the contents of its headers object in place of the reference
Resolve(cfg, h) ==
    IF "headers" \in DefKeys(cfg) THEN [cfg EXCEPT !.headers = h[cfg.headers]] ELSE cfg

ConfigHolders == {"facade", "app", "play"}

ConfigOf(who) == IF who = "facade" THEN facade ELSE config[who]

\* a caller takes a snapshot: facade.getConfig(), appStore.getConfig(), playStore.getConfig()
GetConfig(who) ==
    /\ held' = Some([of |-> who, snapshot |-> GetConfigOf(ConfigOf(who)), written |-> FALSE])
    /\ heldAtReturn' = Some(Resolve(GetConfigOf(ConfigOf(who)), heap))
    /\ cfgOps' = cfgOps + 1
    /\ UNCHANGED <<config, axiosClient, facade, heap, lastCfgOp, before, callVars, cmpVars>>

-----------------------------------------------------------------------------
(* Construction of the facade over the configurations a caller may pass. *)

\* the arguments of new NodeMaw(...): shared fields, with or without the
\* per-store keys, { ...shared, appStore, playStore }
FacadeConfigs ==
    LET shared == {EmptyObject, [timeout |-> 5000], [userAgent |-> Agent.nodeMaw2],
                   [userAgent |-> Agent.myAgent], [headers |-> [k \in {"X-Test"} |-> "1"]],
                   [retryEnabled |-> FALSE, retryAttempts |-> 1]}
        appStore == {[country |-> "ca", includeMetadata |-> TRUE], [timeout |-> 3000],
                     [userAgent |-> Agent.custom], Object(EmptyObject, {"timeout"})}
        playStore == {[language |-> "es", country |-> "mx"], [timeout |-> 3000],
                      Object(EmptyObject, {"timeout"})}
    IN  {Spread(Spread(s, a), p) :
            s \in shared,
            a \in {EmptyObject} \cup {[appStore |-> x] : x \in appStore},
            p \in {EmptyObject} \cup {[playStore |-> x] : x \in playStore}}

InitCtor ==
    /\ \E arg \in FacadeConfigs :
           /\ FacadeClients(arg)
           /\ lastCfgOp = Some([kind |-> "construct", target |-> "facade", arg |-> arg])
    /\ held = Undefined
    /\ heldAtReturn = Undefined
    /\ before = Undefined
    /\ cfgOps = 0
    /\ IdleCall
    /\ cmpA = <<>>
    /\ cmpB = <<>>
    /\ cmpRes = Undefined

\* after construction a caller reads a configuration, once
NextCtor == \E who \in ConfigHolders : cfgOps = 0 /\ GetConfig(who)

SpecCtor == InitCtor /\ [][NextCtor]_vars

-----------------------------------------------------------------------------
(* Configuration operations on a facade and its two clients. *)

\* number of configuration operations (getConfig, updateConfig, writes to a
\* snapshot) followed after construction
MaxConfigOps == 3

StoreKey(s) == IF s = "app" THEN "appStore" ELSE "playStore"

\* mutant: every call updates both clients
PushesTo_Always(newConfig, key) == TRUE

\* mutant: a client is updated only when its own key is given
PushesTo_OwnKeyOnly(newConfig, key) == key \in DefKeys(newConfig)

\* newConfig.appStore || Object.keys(newConfig).some(key => !['appStore', 'playStore'].includes(key))
PushesTo(newConfig, key) ==
    \/ key \in DefKeys(newConfig)
    \/ \E k \in ObjectKeys(newConfig) : k \notin {"appStore", "playStore"}

\* { ...this.config, ...newConfig.appStore }
PushedConfig(this, newConfig, key) == Spread(this, FieldOr(newConfig, key, EmptyObject))

\* facade.updateConfig(arg)
FacadeUpdateConfig(arg) ==
    LET newConfig == Passed(arg, heap)
        this == UpdatedConfig(facade, newConfig)
        pushed(s) == PushedConfig(this, newConfig, StoreKey(s))
        h1 == IF PushesTo(newConfig, "appStore")
              THEN UpdatedHeap(config.app, pushed("app"), HeapWithArgument(arg, heap))
              ELSE HeapWithArgument(arg, heap)
    IN  /\ facade' = this
        /\ config' = [s \in Stores |->
                          IF PushesTo(newConfig, StoreKey(s))
                          THEN UpdatedConfig(config[s], pushed(s))
                          ELSE config[s]]
        /\ heap' = IF PushesTo(newConfig, "playStore")
                   THEN UpdatedHeap(config.play, pushed("play"), h1)
                   ELSE h1
        /\ axiosClient' = IF PushesTo(newConfig, "appStore")
                          THEN AxiosCreate(config'.app, heap')
                          ELSE axiosClient
        /\ UNCHANGED <<callVars, cmpVars>>

\* the holder of a snapshot assigns to one of its fields, or to an entry of
\* the headers object it refers to (Readonly<> is erased at run time)
CallerWrites(field) ==
    /\ held # Undefined
    /\ IF field = "headers"
       THEN /\ "headers" \in DefKeys(held[1].snapshot)
            /\ heap' = [heap EXCEPT ![held[1].snapshot.headers] =
                                        Spread(@, [k \in {"X-Caller"} |-> "w"])]
            /\ held' = Some([held[1] EXCEPT !.written = TRUE])
       ELSE /\ heap' = heap
            /\ held' = Some([held[1] EXCEPT !.written = TRUE,
                                            !.snapshot = Spread(@, [timeout |-> 1])])
    /\ UNCHANGED <<config, axiosClient, facade, heldAtReturn, callVars, cmpVars>>

\* history: the operation and the configurations it started from
Record(kind, target, arg) ==
    /\ lastCfgOp' = Some([kind |-> kind, target |-> target, arg |-> arg])
    /\ before' = Some([config |-> config, facade |-> facade, heap |-> heap])
    /\ cfgOps' = cfgOps + 1

\* the configuration a session starts from
SessionConfigs ==
    {EmptyObject,
     [timeout |-> 5000,
      appStore |-> [country |-> "ca", includeMetadata |-> TRUE],
      playStore |-> [language |-> "es", country |-> "mx"]],
     [headers |-> [k \in {"X-Test"} |-> "1"], playStore |-> [timeout |-> 3000]]}

FacadeUpdates ==
    {[timeout |-> 8000],
     Object(EmptyObject, {"timeout"}),
     [headers |-> [k \in {"X-Test"} |-> "2"]],
     [appStore |-> [country |-> "uk"]],
     [playStore |-> [language |-> "fr"]],
     [timeout |-> 8000, appStore |-> [country |-> "uk"], playStore |-> [language |-> "fr"]],
     [userAgent |-> Agent.myAgent, appStore |-> [userAgent |-> Agent.custom]]}

StoreUpdates ==
    {[timeout |-> 15000],
     [userAgent |-> Agent.custom, country |-> "uk"],
     Object(EmptyObject, {"timeout"}),
     [headers |-> [k \in {"X-Test"} |-> "3"]]}

InitCfg ==
    /\ \E arg \in SessionConfigs :
           /\ FacadeClients(arg)
           /\ lastCfgOp = Some([kind |-> "construct", target |-> "facade", arg |-> arg])
    /\ held = Undefined
    /\ heldAtReturn = Undefined
    /\ before = Undefined
    /\ cfgOps = 0
    /\ IdleCall
    /\ cmpA = <<>>
    /\ cmpB = <<>>
    /\ cmpRes = Undefined

NextCfg ==
    \/ \E who \in ConfigHolders :
           /\ cfgOps < MaxConfigOps
           /\ GetConfig(who)
    \/ \E arg \in FacadeUpdates :
           /\ cfgOps < MaxConfigOps
           /\ FacadeUpdateConfig(arg)
           /\ Record("facadeUpdate", "facade", arg)
           /\ UNCHANGED <<held, heldAtReturn>>
    \/ \E s \in Stores, arg \in StoreUpdates :
           /\ cfgOps < MaxConfigOps
           /\ UpdateConfig(s, arg)
           /\ Record("storeUpdate", s, arg)
           /\ UNCHANGED <<held, heldAtReturn>>
    \/ \E field \in {"timeout", "headers"} :
           /\ cfgOps < MaxConfigOps
           /\ CallerWrites(field)
           /\ Record("write", held[1].of, field)

SpecCfg == InitCfg /\ [][NextCfg]_vars

-----------------------------------------------------------------------------
(* PlayStoreClient.getVersion's validation over every package name up to a   *)
(* length, on a client built with the defaults.                              *)

\* package names under test: every string over PackageNameAlphabet up to this length
MaxNameLen == 4

\* every string up to MaxNameLen over a lower-case and an upper-case letter, a
\* digit, the underscore, the dot, a character outside the pattern's classes and
\* a white-space character; and the names the tests use
PackageNames ==
    LET alphabet == {"a", "B", "1", "_", ".", "-", " "}
        upTo[n \in 0..MaxNameLen] ==
            IF n = 0 THEN {<<>>}
            ELSE upTo[n - 1] \cup {Append(s, c) : s \in upTo[n - 1], c \in alphabet}
    IN  {JsStr(s) : s \in upTo[MaxNameLen]} \cup {IdInvalidPackage, IdComApp}

InitPkg ==
    /\ StandaloneClients(EmptyObject, EmptyObject)
    /\ NoHistory
    /\ IdleCall
    /\ cmpA = <<>>
    /\ cmpB = <<>>
    /\ cmpRes = Undefined

\* playStore.getVersion(packageName), up to its first await
NextPkg == \E id \in PackageNames : Call("getVersion", "play", id, JsUndefined)

SpecPkg == InitPkg /\ [][NextPkg]_vars

-----------------------------------------------------------------------------
(* updateConfig on a client while one of its getVersion calls is under way.  *)

\* updateConfig({ country: 'uk', timeout: 5000 }) on the App Store client,
\* updateConfig({ language: 'fr', country: 'mx' }) on the Play Store client
LocaleUpdates(s) ==
    IF s = "app" THEN {[country |-> "uk", timeout |-> 5000]}
    ELSE {[language |-> "fr", country |-> "mx"]}

NextUpd ==
    \/ \E s \in Stores : Call("getVersion", s, IdComApp, JsUndefined)
    \/ \E resp \in Backend(store, argId) : LookupSettles(resp)
    \/ BackoffElapses
    \/ CallEnds
    \/ \E s \in Stores : \E newConfig \in LocaleUpdates(s) :
           UpdateConfig(s, newConfig) /\ UNCHANGED histVars

SpecUpd == InitPkg /\ [][NextUpd]_vars

-----------------------------------------------------------------------------
(* updateConfig changing the retry settings of a client, before a getVersion *)
(* call or while the call waits between two attempts.                        *)

NextRetryUpd ==
    \/ \E s \in Stores : Call("getVersion", s, IdComApp, JsUndefined)
    \/ \E resp \in Backend(store, argId) : LookupSettles(resp)
    \/ BackoffElapses
    \/ CallEnds
    \/ \E s \in Stores :
           \E newConfig \in ConfigUpdates \cup {[retryAttempts |-> MaxRetryAttempts + 1]} :
               /\ pc = "idle" \/ (pc = "backoff" /\ store = s)
               /\ UpdateConfig(s, newConfig)
               /\ UNCHANGED histVars

SpecRetryUpd == Init /\ [][NextRetryUpd]_vars

-----------------------------------------------------------------------------
(* checkForUpdates with every version string up to a length as the current   *)
(* version, against stores that may report a sentinel as the latest version. *)

NextChk ==
    \/ \E s \in Stores, cur \in VersionInputs :
           Call("checkForUpdates", s, IdComApp, JsStr(cur))
    \/ \E resp \in Backend(store, argId)
                       \cup (IF store = "app"
                             THEN {Resolved([resultCount |-> 1,
                                             results |-> <<AppStoreApp(argId.v, v)>>]) :
                                       v \in Sentinels}
                             ELSE {Resolved(GplayApp(Some(v))) :
                                       v \in Sentinels \cup {<<>>}}) :
           LookupSettles(resp)
    \/ BackoffElapses
    \/ CallEnds

SpecChk == InitPkg /\ [][NextChk]_vars

-----------------------------------------------------------------------------
(* Two getVersion calls under way on the same client.                        *)

NextTwo ==
    \/ \E s \in Stores :
           /\ other.pc = "idle" \/ other.store = s
           /\ Call("getVersion", s, IdComApp, JsUndefined)
    \/ \E resp \in Backend(store, argId) : LookupSettles(resp)
    \/ BackoffElapses
    \/ CallEnds
    \/ Resume
    \/ \E s \in Stores, n \in 1..MaxRetryAttempts :
           UpdateConfig(s, [retryAttempts |-> n]) /\ UNCHANGED histVars

SpecTwo == InitPkg /\ [][NextTwo]_vars

-----------------------------------------------------------------------------
(* Observations on the history of the call in flight. *)

NumLookups == Cardinality({i \in DOMAIN log : log[i].e = "lookup"})

NumWaits == Cardinality({i \in DOMAIN log : log[i].e = "wait"})

\* getVersion has been entered by the operation in flight
GetVersionEntered ==
    pc # "idle" /\ op # "search" /\ ~(pc = "done" /\ gvOutcome = NoOutcome)

\* the log ends with a lookup: nothing was waited for or looked up after it
EndsWithLookup == log # <<>> /\ log[Len(log)].e = "lookup"

\* the most recent lookup gave the backend's record of the app
LastLookupSucceeded ==
    /\ lastResp.settled = "resolved"
    /\ IF store = "app"
       THEN lastResp.data.resultCount > 0 /\ Len(lastResp.data.results) > 0
       ELSE lastResp.data # JsNull

\* the name of the StoreError class of the client called
StoreErrorName == IF store = "app" THEN "AppStoreError" ELSE "PlayStoreError"

ThrewStoreError(o) == o.t = "threw" /\ IsError(o.e) /\ o.e.name = StoreErrorName

NotAString(x) == x.t # "string"

Blank(x) == x.t = "string" /\ \A i \in 1..Len(x.v) : x.v[i] \in Whitespace

NonDotted(x) == x.t = "string" /\ ~Blank(x) /\ \A i \in 1..Len(x.v) : x.v[i] # "."

-----------------------------------------------------------------------------
(* C1: a getVersion call that passed validation issues at most maxAttempts  *)
(* lookups, maxAttempts being (retryEnabled ? retryAttempts : 1) of the      *)
(* configuration at the start of the call; and once a lookup succeeds the    *)
(* call has returned that record, the log ending with that lookup.           *)
C1_BoundedAttemptsReturnOnSuccess ==
    cfgAtStart # Undefined =>
        LET c == cfgAtStart[1]
            bound == IF c.retryEnabled THEN c.retryAttempts ELSE 1
        IN  /\ maxAttempts = bound
            /\ NumLookups <= bound
            /\ LastLookupSucceeded =>
                   /\ pc = "done"
                   /\ gvOutcome.t = "returned"
                   /\ EndsWithLookup
                   /\ log[Len(log)].attempt = NumLookups
                   /\ NumWaits = NumLookups - 1
                   /\ IF store = "app"
                      THEN /\ gvOutcome.v.version = lastResp.data.results[1].version
                           /\ gvOutcome.v.bundleId
                                  = Some(lastResp.data.results[1].bundleId)
                      ELSE /\ gvOutcome.v.packageName = Some(argId.v)
                           /\ lastResp.data.version # Undefined =>
                                  gvOutcome.v.version = lastResp.data.version[1]

\* a call that succeeded on its second lookup, after one backoff wait
C1_Witness ==
    /\ pc = "done"
    /\ gvOutcome.t = "returned"
    /\ NumLookups = 2
    /\ NumWaits = 1
    /\ LastLookupSucceeded

PlayLastLookupNotFound ==
    /\ store = "play"
    /\ \/ lastResp.settled = "resolved" /\ lastResp.data = JsNull
       \/ /\ lastResp.settled = "rejected"
          /\ IsError(lastResp.e)
          /\ \/ Includes(lastResp.e.message, PlayMsg.notFound)
             \/ Includes(lastResp.e.message, PlayMsg.code404)

(* C3: PlayStoreClient.getVersion never retries a not-found: when a lookup  *)
(* ends in not-found, also when it is not the last allowed attempt, the     *)
(* call has raised PlayStoreError 404 with no wait and no lookup after it.  *)
C3_PlayNotFoundNeverRetried ==
    PlayLastLookupNotFound =>
        /\ pc = "done"
        /\ ThrewStoreError(gvOutcome)
        /\ gvOutcome.e.statusCode = Some(404)
        /\ EndsWithLookup

(* C4: AppStoreClient.getVersion, on a response with resultCount = 0,       *)
(* raises AppStoreError 404 carrying the requested identifier, whatever     *)
(* maxAttempts is, with no wait and no lookup after that response.          *)
C4_AppNotFoundRaises404 ==
    (store = "app" /\ lastResp.settled = "resolved" /\ lastResp.data.resultCount = 0) =>
        /\ pc = "done"
        /\ gvOutcome.t = "threw"
        /\ IsError(gvOutcome.e)
        /\ gvOutcome.e.name = "AppStoreError"
        /\ gvOutcome.e.statusCode = Some(404)
        /\ gvOutcome.e.bundleId = argId
        /\ EndsWithLookup
        /\ log[Len(log)].attempt = NumLookups

\* not-found on the first of several allowed attempts
C4_Witness ==
    /\ store = "app"
    /\ pc = "done"
    /\ lastResp.settled = "resolved"
    /\ lastResp.data.resultCount = 0
    /\ maxAttempts >= 2
    /\ NumLookups = 1
    /\ gvOutcome.t = "threw"

(* C5: exists returns true when getVersion returned, false when getVersion  *)
(* raised the store's StoreError with status 404, and otherwise re-raises   *)
(* the error getVersion raised.                                              *)
C5_ExistsOutcome ==
    (pc = "done" /\ op = "exists") =>
        IF gvOutcome.t = "returned"
        THEN outcome.t = "returned" /\ outcome.v = TRUE
        ELSE IF ThrewStoreError(gvOutcome) /\ gvOutcome.e.statusCode = Some(404)
        THEN outcome.t = "returned" /\ outcome.v = FALSE
        ELSE outcome.t = "threw" /\ outcome.e = gvOutcome.e

\* a StoreError with another status code is re-raised, not turned into false
C5_Witness ==
    /\ pc = "done"
    /\ op = "exists"
    /\ ThrewStoreError(gvOutcome)
    /\ gvOutcome.e.statusCode = Some(500)
    /\ outcome.t = "threw"

(* C6: when getVersion returned r, checkForUpdates(id, cur) returns         *)
(* currentVersion = cur, latestVersion = r.version, versionComparison =     *)
(* compareVersions(cur, r.version), updateAvailable = (versionComparison <  *)
(* 0), and updateDetails = r if updateAvailable and undefined otherwise.    *)
C6_UpdateCheckResult ==
    (pc = "done" /\ op = "checkForUpdates" /\ gvOutcome.t = "returned") =>
        /\ outcome.t = "returned"
        /\ outcome.v.currentVersion = argCur.v
        /\ outcome.v.latestVersion = gvOutcome.v.version
        /\ outcome.v.versionComparison = compareVersions(argCur.v, gvOutcome.v.version)
        /\ outcome.v.updateAvailable = (outcome.v.versionComparison < 0)
        /\ outcome.v.updateDetails
               = IF outcome.v.updateAvailable THEN Some(gvOutcome.v) ELSE Undefined

\* 1.2.0 against a latest version 1.10.0: an update, with its details
C6_Witness ==
    /\ pc = "done"
    /\ op = "checkForUpdates"
    /\ gvOutcome.t = "returned"
    /\ argCur.v = V_1_2_0
    /\ gvOutcome.v.version = V_1_10_0
    /\ outcome.v.updateAvailable
    /\ outcome.v.updateDetails = Some(gvOutcome.v)

(* C7: checkForUpdates with a currentVersion that is not a string, or is    *)
(* empty or whitespace-only, raises the store's StoreError without calling  *)
(* the backend, whatever the identifier is.                                  *)
C7_InvalidCurrentVersionRejected ==
    (pc # "idle" /\ op = "checkForUpdates" /\ (NotAString(argCur) \/ Blank(argCur))) =>
        /\ pc = "done"
        /\ ThrewStoreError(outcome)
        /\ log = <<>>

\* a valid identifier with a whitespace-only currentVersion
C7_Witness ==
    /\ pc = "done"
    /\ op = "checkForUpdates"
    /\ argId = IdComApp
    /\ Blank(argCur)
    /\ argCur.v # <<>>
    /\ ThrewStoreError(outcome)

(* C8: checkForUpdates re-raises unchanged a StoreError of its own store    *)
(* raised by getVersion, and turns any other failure of getVersion into a   *)
(* NetworkError whose originalError is that failure.                         *)
C8_CheckForUpdatesErrors ==
    (pc = "done" /\ op = "checkForUpdates" /\ gvOutcome.t = "threw") =>
        /\ outcome.t = "threw"
        /\ IF ThrewStoreError(gvOutcome)
           THEN outcome.e = gvOutcome.e
           ELSE /\ IsError(outcome.e)
                /\ outcome.e.name = "NetworkError"
                /\ outcome.e.originalError = Some(gvOutcome.e)

\* a NetworkError of getVersion wrapped by checkForUpdates
C8_Witness ==
    /\ pc = "done"
    /\ op = "checkForUpdates"
    /\ gvOutcome.t = "threw"
    /\ gvOutcome.e.name = "NetworkError"
    /\ outcome.t = "threw"
    /\ outcome.e.originalError = Some(gvOutcome.e)

-----------------------------------------------------------------------------
(* The comparison the specification describes, written from its words:      *)
(* keep digits and dots, number the segments by the dots before them, read  *)
(* each segment as a decimal integer (an empty or missing one as 0), and    *)
(* decide at the first position where the two differ.                       *)

KeptPositions(s) == {i \in 1..Len(s) : s[i] \in Digits \cup {"."}}

DotsBefore(s, i) == Cardinality({j \in KeptPositions(s) : j < i /\ s[j] = "."})

\* the positions of the digits of segment k (k = 1 is the first segment)
SegmentDigits(s, k) ==
    {i \in KeptPositions(s) : s[i] # "." /\ DotsBefore(s, i) = k - 1}

\* the digits of segment k in order, leading zeros dropped: its value as a numeral
RECURSIVE StripZeros(_)
StripZeros(ds) == IF ds # <<>> /\ Head(ds) = 0 THEN StripZeros(Tail(ds)) ELSE ds

RECURSIVE InOrder(_, _)
InOrder(positions, s) ==
    IF positions = {} THEN <<>>
    ELSE LET i == CHOOSE x \in positions : \A y \in positions : x <= y
         IN  <<DigitValue(s[i])>> \o InOrder(positions \ {i}, s)

SegmentValue(s, k) == StripZeros(InOrder(SegmentDigits(s, k), s))

\* a < b for numerals without leading zeros: the integers compared exactly
NumeralLess(a, b) ==
    \/ Len(a) < Len(b)
    \/ /\ Len(a) = Len(b)
       /\ \E i \in 1..Len(a) : a[i] < b[i] /\ \A j \in 1..(i - 1) : a[j] = b[j]

SegmentCount(s) == Cardinality({i \in KeptPositions(s) : s[i] = "."}) + 1

ReferenceCompare(a, b) ==
    LET n == MaxOf(SegmentCount(a), SegmentCount(b))
        differing == {k \in 1..n : SegmentValue(a, k) # SegmentValue(b, k)}
    IN  IF differing = {} THEN 0
        ELSE LET k == CHOOSE x \in differing : \A y \in differing : x <= y
             IN  IF NumeralLess(SegmentValue(a, k), SegmentValue(b, k)) THEN -1 ELSE 1

(* C9: compareVersions(v, v) = 0 for every string v, sentinels and strings  *)
(* without digits included, and every result is one of -1, 0, 1.            *)
C9_ReflexiveAndRange ==
    cmpRes # Undefined =>
        /\ cmpRes[1] \in {-1, 0, 1}
        /\ cmpA = cmpB => cmpRes[1] = 0

\* a sentinel compared with itself
C9_Witness ==
    /\ cmpA = SENTINEL_Unknown
    /\ cmpB = SENTINEL_Unknown
    /\ cmpRes = Some(0)

(* C10: for unequal strings neither of which is a sentinel, compareVersions *)
(* gives the result of the reference comparison.                            *)
C10_MatchesReference ==
    (cmpRes # Undefined /\ cmpA # cmpB /\ cmpA \notin Sentinels /\ cmpB \notin Sentinels) =>
        cmpRes[1] = ReferenceCompare(cmpA, cmpB)

(* C11: for different strings, compareVersions gives -1 whenever the first  *)
(* is "Unknown" or "VARY" (the second being a sentinel or not), and 1       *)
(* whenever the second is a sentinel and the first is not.                  *)
C11_SentinelsOldest ==
    (cmpRes # Undefined /\ cmpA # cmpB) =>
        /\ cmpA \in Sentinels => cmpRes[1] = -1
        /\ (cmpB \in Sentinels /\ cmpA \notin Sentinels) => cmpRes[1] = 1

\* two different sentinels: the first one decides
C11_Witness ==
    /\ cmpA = SENTINEL_Unknown
    /\ cmpB = SENTINEL_VARY
    /\ cmpRes = Some(-1)

-----------------------------------------------------------------------------
(* Configuration claims. *)

StoreToken(s) == Agent[s]

SharedFieldNames == {"timeout", "userAgent", "headers", "retryEnabled", "retryAttempts"}

\* the configuration a store client has when built from {}
StoreDefaults(s) ==
    Resolve(IF s = "app" THEN AppStoreClientConfig(EmptyObject, <<>>)
            ELSE PlayStoreClientConfig(EmptyObject, <<>>),
            <<EmptyObject>>)

ConstructorArgument == IF lastCfgOp # Undefined /\ lastCfgOp[1].kind = "construct"
                       THEN Some(lastCfgOp[1].arg) ELSE Undefined

\* field f of store s's client as the precedence rule gives it: the override's
\* value, else the shared value, else the store's default
ByPrecedence(arg, s, f) ==
    IF f \in DefKeys(FieldOr(arg, StoreKey(s), EmptyObject)) THEN FieldOr(arg, StoreKey(s), EmptyObject)[f]
    ELSE IF f \in DefKeys(arg) \cap SharedFieldNames
    THEN (IF f = "userAgent" THEN Replace(arg[f], Agent.token, StoreToken(s)) ELSE arg[f])
    ELSE StoreDefaults(s)[f]

(* C12: after new NodeMaw(arg) every field of each store client's          *)
(* configuration is the value its own override gives, else the shared      *)
(* value (the user agent with the store's token substituted), else the     *)
(* store's default; the other store's override plays no part.              *)
C12_FacadeMergePrecedence ==
    ConstructorArgument # Undefined =>
        \A s \in Stores : \A f \in DefKeys(StoreDefaults(s)) :
            Get(Resolve(config[s], heap), f) = Some(ByPrecedence(ConstructorArgument[1], s, f))

\* the most recent operation, if it is of this kind
LastOp(kind) == lastCfgOp # Undefined /\ lastCfgOp[1].kind = kind

\* a configuration as a caller reads it: headers by their contents
Seen(who) == Resolve(ConfigOf(who), heap)

SeenBefore(who) ==
    Resolve(IF who = "facade" THEN before[1].facade ELSE before[1].config[who], before[1].heap)

SharedKeys(p) == ObjectKeys(p) \ {"appStore", "playStore"}

(* C13: after facade.updateConfig(p) with at least one shared field in p,   *)
(* every shared field named in p has the value p gives it in the facade's  *)
(* configuration and in each store client's configuration, unless p's      *)
(* override for that store names the field too; also when p has no         *)
(* appStore or playStore key.                                              *)
C13_SharedUpdateReachesBoth ==
    (LastOp("facadeUpdate") /\ SharedKeys(lastCfgOp[1].arg) # {}) =>
        LET p == lastCfgOp[1].arg
        IN  \A f \in SharedKeys(p) :
                /\ Get(Seen("facade"), f) = Get(p, f)
                /\ \A s \in Stores :
                       f \notin ObjectKeys(FieldOr(p, StoreKey(s), EmptyObject)) =>
                           Get(Seen(s), f) = Get(p, f)

\* updateConfig({ timeout: 8000 }) alone has set the timeout of both clients
C13_Witness ==
    /\ LastOp("facadeUpdate")
    /\ lastCfgOp[1].arg = [timeout |-> 8000]
    /\ before[1].config.app.timeout # 8000
    /\ config.app.timeout = 8000
    /\ config.play.timeout = 8000

(* C14: facade.updateConfig(p) where p has one store's override as its     *)
(* only key leaves the other store client's configuration as it was, in    *)
(* every field; the other store changes only when p has a shared field or  *)
(* that store's own key.                                                   *)
C14_OverrideTouchesOneStore ==
    LastOp("facadeUpdate") =>
        \A s \in Stores :
            (SharedKeys(lastCfgOp[1].arg) = {} /\ StoreKey(s) \notin ObjectKeys(lastCfgOp[1].arg))
                => Seen(s) = SeenBefore(s)

\* updateConfig({ appStore: { country: 'uk' } }) has changed the App Store
\* client and not the Play Store client
C14_Witness ==
    /\ LastOp("facadeUpdate")
    /\ lastCfgOp[1].arg = [appStore |-> [country |-> "uk"]]
    /\ before[1].config.app.country # "uk"
    /\ config.app.country = "uk"
    /\ config.play = before[1].config.play

(* C15: a snapshot returned by getConfig (of a store client or of the       *)
(* facade) that its holder has not written to keeps, in every field and in *)
(* its headers, the values it had when it was returned, whatever           *)
(* updateConfig calls follow.                                              *)
C15_SnapshotSurvivesUpdates ==
    (held # Undefined /\ ~held[1].written) =>
        Resolve(held[1].snapshot, heap) = heldAtReturn[1]

\* the holder's configuration has moved on since the snapshot was taken, headers included
C15_Witness ==
    /\ held # Undefined
    /\ ~held[1].written
    /\ LastOp("storeUpdate")
    /\ "headers" \in DefKeys(lastCfgOp[1].arg)
    /\ lastCfgOp[1].target = held[1].of
    /\ Seen(held[1].of) # heldAtReturn[1]
    /\ Resolve(held[1].snapshot, heap) = heldAtReturn[1]

(* C16: a write by the caller to a snapshot getConfig returned, to one of   *)
(* its fields or to an entry of its headers, changes no configuration a    *)
(* client or the facade holds: a later getConfig returns the values from   *)
(* before the write.                                                       *)
C16_SnapshotIsACopy ==
    LastOp("write") => \A who \in ConfigHolders : Seen(who) = SeenBefore(who)

(* C17: after construction and after any sequence of updateConfig calls,   *)
(* made on a client or pushed by the facade, every field of each store     *)
(* client's configuration (timeout, userAgent, headers, retryEnabled,      *)
(* retryAttempts, country, includeMetadata, and language for the Play      *)
(* Store client) has a defined value.                                      *)
C17_ConfigFullyPopulated ==
    \A s \in Stores : \A f \in DefKeys(StoreDefaults(s)) : Get(config[s], f) # Undefined

(* C18: a store client's updateConfig(partial) sets exactly the fields      *)
(* named in partial to the values given and leaves every other field of    *)
(* that client's configuration as it was before the call.                  *)
C18_StoreUpdateMergesPartial ==
    LastOp("storeUpdate") =>
        LET s == lastCfgOp[1].target
            partial == lastCfgOp[1].arg
        IN  \A f \in ObjectKeys(Seen(s)) \cup ObjectKeys(SeenBefore(s)) \cup ObjectKeys(partial) :
                Get(Seen(s), f) = IF f \in ObjectKeys(partial) THEN Get(partial, f)
                                  ELSE Get(SeenBefore(s), f)

\* updateConfig({ userAgent, country }) on a client whose timeout came from the facade
C18_Witness ==
    /\ LastOp("storeUpdate")
    /\ lastCfgOp[1].arg = [userAgent |-> Agent.custom, country |-> "uk"]
    /\ lastCfgOp[1].target = "play"
    /\ before[1].config.play.country = "mx"
    /\ config.play.country = "uk"
    /\ config.play.userAgent = Agent.custom
    /\ config.play.timeout = 5000
    /\ config.play.language = "es"

-----------------------------------------------------------------------------
(* Error claims. *)

\* the identifier a store error carries
IdentifierOf(e) == IF e.name = "AppStoreError" THEN e.bundleId ELSE e.packageName

(* C19: every AppStoreError or PlayStoreError that getVersion or           *)
(* checkForUpdates raises carries an identifier (bundleId / packageName)   *)
(* that is a string, and the empty string when the identifier argument     *)
(* was not a string.                                                       *)
C19_ErrorIdentifierIsString ==
    (pc = "done" /\ op \in {"getVersion", "checkForUpdates"} /\ ThrewStoreError(outcome)) =>
        /\ IsString(IdentifierOf(outcome.e))
        /\ NotAString(argId) => IdentifierOf(outcome.e) = JsStr(<<>>)

\* the last lookup got no usable response: axios rejected without a response,
\* or the scraper's error names the network or a timeout
NoUsableResponse ==
    /\ lastResp.settled = "rejected"
    /\ IsError(lastResp.e)
    /\ IF store = "app"
       THEN IsAxiosError(lastResp.e) /\ lastResp.e.response = Undefined
       ELSE Includes(lastResp.e.message, PlayMsg.network)
                \/ Includes(lastResp.e.message, PlayMsg.timeout)

\* the last lookup may have got a response: axios rejected with one, or the
\* scraper's error does not say otherwise
ResponseReceived ==
    /\ lastResp.settled = "rejected"
    /\ IsError(lastResp.e)
    /\ IF store = "app"
       THEN IsAxiosError(lastResp.e) /\ lastResp.e.response # Undefined
       ELSE ~NoUsableResponse

(* C20: a getVersion call all of whose lookups fail in transport makes     *)
(* exactly maxAttempts lookups and then raises a NetworkError when no      *)
(* usable response was received (timeout, connection error), and the       *)
(* store's error only when a response was received.                        *)
C20_TransportFailureClassified ==
    (pc = "done" /\ gvOutcome.t = "threw" /\ NumLookups > 0 /\ transportOnly) =>
        /\ NumLookups = maxAttempts
        /\ NoUsableResponse => gvOutcome.e.name = "NetworkError"
        /\ gvOutcome.e.name = StoreErrorName => ResponseReceived

-----------------------------------------------------------------------------
(* Validation and result claims. *)

\* the form the specification describes, written from its words: two or more
\* dot-separated segments, each beginning with a letter and continuing with
\* letters, digits or underscores
DottedForm(s) ==
    LET segments == SplitOnDot(s)
    IN  /\ Len(segments) >= 2
        /\ \A i \in 1..Len(segments) :
               /\ segments[i] # <<>>
               /\ segments[i][1] \in Letters
               /\ \A j \in 2..Len(segments[i]) :
                      segments[i][j] \in Letters \cup Digits \cup {"_"}

\* getVersion raised the error that reports a malformed package name
RaisedInvalidFormat ==
    /\ pc = "done"
    /\ gvOutcome.t = "threw"
    /\ IsPlayStoreError(gvOutcome.e)
    /\ Includes(gvOutcome.e.message, PlayMsg.invalidFormat)

(* C21: PlayStoreClient.getVersion raises PlayStoreError 'Invalid package   *)
(* name format', carrying the given name and without a backend lookup, for *)
(* exactly the non-blank strings that are not two or more dot-separated    *)
(* segments each beginning with a letter and continuing with letters,      *)
(* digits or underscores; a string of that form reaches the backend lookup.*)
C21_PackageNameFormat ==
    (pc # "idle" /\ store = "play" /\ op = "getVersion" /\ IsString(argId)) =>
        /\ RaisedInvalidFormat <=> (~Blank(argId) /\ ~DottedForm(argId.v))
        /\ RaisedInvalidFormat =>
               /\ gvOutcome.e.packageName = argId
               /\ gvOutcome.e.statusCode = Undefined
               /\ log = <<>>
        /\ DottedForm(argId.v) =>
               /\ pc = "lookup"
               /\ NumLookups = 1
               /\ log[1].appId = argId.v

\* a name whose second segment begins with a digit is rejected; the lookup is
\* not made
C21_Witness ==
    /\ store = "play"
    /\ argId = JsStr(<<"a", ".", "1", "B">>)
    /\ RaisedInvalidFormat
    /\ log = <<>>

\* exactly one of bundleId / packageName, as the origin store requires
PopulatedFor(s, record) ==
    IF s = "app"
    THEN record.bundleId # Undefined /\ record.packageName = Undefined
    ELSE record.packageName # Undefined /\ record.bundleId = Undefined

(* C22: every AppVersion that getVersion or search returns has bundleId and *)
(* no packageName when it comes from the App Store client, packageName and  *)
(* no bundleId when it comes from the Play Store client; for Play Store     *)
(* getVersion the packageName is the requested identifier.                  *)
C22_OneIdentifierPopulated ==
    /\ (pc = "done" /\ gvOutcome.t = "returned") =>
           /\ PopulatedFor(store, gvOutcome.v)
           /\ store = "play" => gvOutcome.v.packageName = Some(argId.v)
    /\ (pc = "done" /\ op = "search" /\ outcome.t = "returned") =>
           \A i \in 1..Len(outcome.v) : PopulatedFor(store, outcome.v[i])

\* a Play Store search that returned two records
C22_Witness ==
    /\ pc = "done"
    /\ op = "search"
    /\ store = "play"
    /\ outcome.t = "returned"
    /\ Len(outcome.v) = 2
    /\ outcome.v[2].packageName = Some(<<"o", "r", "g", ".", "a", "p", "p">>)

-----------------------------------------------------------------------------
(* Retry claims. *)

\* the milliseconds waited in the first n entries of the log
RECURSIVE WaitedMs(_)
WaitedMs(n) ==
    IF n = 0 THEN 0
    ELSE WaitedMs(n - 1) + (IF log[n].e = "wait" THEN log[n].ms ELSE 0)

(* C23: in getVersion the wait after failed attempt k (counted from 1) is   *)
(* 2^k seconds and is followed by attempt k+1; nothing is waited before     *)
(* attempt 1 nor after the last attempt, so a call whose n = maxAttempts    *)
(* attempts all failed has waited 2^n - 2 seconds in total.                 *)
C23_ExponentialBackoff ==
    (GetVersionEntered /\ log # <<>>) =>
        /\ log[1].e = "lookup" /\ log[1].attempt = 1
        /\ \A i \in DOMAIN log :
               log[i].e = "wait" =>
                   /\ i > 1
                   /\ log[i - 1].e = "lookup"
                   /\ log[i].ms = (2 ^ log[i - 1].attempt) * 1000
                   /\ log[i - 1].attempt < maxAttempts
                   /\ i < Len(log) =>
                          /\ log[i + 1].e = "lookup"
                          /\ log[i + 1].attempt = log[i - 1].attempt + 1
                   /\ i = Len(log) => pc = "backoff"
        /\ (pc = "done" /\ gvOutcome.t = "threw" /\ NumLookups = maxAttempts) =>
               /\ EndsWithLookup
               /\ WaitedMs(Len(log)) = ((2 ^ maxAttempts) - 2) * 1000

\* three failed attempts: 2 s and 4 s waited, 6 s in all
C23_Witness ==
    /\ pc = "done"
    /\ gvOutcome.t = "threw"
    /\ maxAttempts = 3
    /\ NumLookups = 3
    /\ WaitedMs(Len(log)) = 6000

\* the terminal outcomes of the specification's state machine for getVersion
EndedRejected == gvOutcome.t = "threw" /\ ThrewStoreError(gvOutcome) /\ NumLookups = 0

EndedSucceeded ==
    gvOutcome.t = "returned" /\ NumLookups >= 1 /\ EndsWithLookup /\ LastLookupSucceeded

EndedFailed == gvOutcome.t = "threw" /\ NumLookups >= 1

\* getVersion has ended
GetVersionEnded == GetVersionEntered /\ pc = "done"

(* C24: when every lookup settles and every backoff timer fires, a          *)
(* getVersion call that is under way ends; a call that has ended is in      *)
(* exactly one of Rejected (validation error, no lookup), Succeeded (the    *)
(* record of its last attempt returned) and Failed (an error raised after   *)
(* at least one attempt); and it issues no lookup after it has ended.       *)
C24_CallTerminatesInOneOutcome ==
    /\ (GetVersionEntered ~> GetVersionEnded)
    /\ [](GetVersionEnded =>
              /\ EndedRejected \/ EndedSucceeded \/ EndedFailed
              /\ ~(EndedRejected /\ EndedSucceeded)
              /\ ~(EndedRejected /\ EndedFailed)
              /\ ~(EndedSucceeded /\ EndedFailed))
    /\ [][(GetVersionEnded /\ pc' = "done") => log' = log]_vars

\* getVersion raised the NetworkError that follows its loop
RaisedFallback ==
    /\ gvOutcome.t = "threw"
    /\ gvOutcome.e.name = "NetworkError"
    /\ Includes(gvOutcome.e.message, AppMsg.attempts)
    /\ \/ Includes(gvOutcome.e.message, AppMsg.failedAfter)
       \/ Includes(gvOutcome.e.message, PlayMsg.failedAfter)

(* C25: for a valid identifier and every configuration the constructors and *)
(* updateConfig can produce, getVersion returns or raises from inside its   *)
(* retry loop: the NetworkError 'Failed to fetch ... version after N        *)
(* attempts' that follows the loop is never raised.                         *)
C25_FallbackNeverRaised == GetVersionEnded => ~RaisedFallback

\* the HTTP status in 400..499 the latest App Store lookup failed with, if any:
\* an error response reported by the transport, or the 404 the client raises
\* itself for an empty result
AppClientErrorStatus ==
    IF store # "app" THEN Undefined
    ELSE IF lastResp.settled = "rejected" /\ IsAxiosError(lastResp.e)
            /\ lastResp.e.response # Undefined
            /\ lastResp.e.response[1].status \in 400..499
    THEN Some(lastResp.e.response[1].status)
    ELSE IF lastResp.settled = "resolved" /\ lastResp.data.resultCount = 0
    THEN Some(404)
    ELSE Undefined

(* C26: when an attempt of AppStoreClient.getVersion fails with an HTTP     *)
(* status in 400..499, reported by the transport as an error response or    *)
(* raised as an AppStoreError, no wait and no further attempt follow and    *)
(* the call raises AppStoreError carrying that status code.                 *)
C26_AppClientErrorsNotRetried ==
    AppClientErrorStatus # Undefined =>
        /\ pc = "done"
        /\ EndsWithLookup
        /\ gvOutcome.t = "threw"
        /\ gvOutcome.e.name = "AppStoreError"
        /\ gvOutcome.e.statusCode = AppClientErrorStatus

\* the text m contains the text sub, found by comparing at every position
Contains(m, sub) ==
    \E i \in 1..Len(m) :
        i + Len(sub) - 1 <= Len(m) /\ \A j \in 1..Len(sub) : m[i + j - 1] = sub[j]

(* C27: when the final attempt of PlayStoreClient.getVersion fails with an  *)
(* Error of message m, the call raises PlayStoreError 404 if m contains     *)
(* "not found" or "404"; otherwise NetworkError whose originalError is that *)
(* error if m contains "network" or "timeout"; otherwise PlayStoreError     *)
(* without status code.  A thrown value that is no Error gives NetworkError *)
(* without originalError.                                                   *)
C27_PlayFinalErrorClassified ==
    (GetVersionEnded /\ store = "play" /\ lastResp.settled = "rejected") =>
        /\ gvOutcome.t = "threw"
        /\ IF ~IsError(lastResp.e)
           THEN /\ gvOutcome.e.name = "NetworkError"
                /\ gvOutcome.e.originalError = Undefined
           ELSE IF Contains(lastResp.e.message, <<"n", "o", "t", " ", "f", "o", "u", "n", "d">>)
                   \/ Contains(lastResp.e.message, <<"4", "0", "4">>)
           THEN /\ gvOutcome.e.name = "PlayStoreError"
                /\ gvOutcome.e.statusCode = Some(404)
           ELSE IF Contains(lastResp.e.message, <<"n", "e", "t", "w", "o", "r", "k">>)
                   \/ Contains(lastResp.e.message, <<"t", "i", "m", "e", "o", "u", "t">>)
           THEN /\ gvOutcome.e.name = "NetworkError"
                /\ gvOutcome.e.originalError = Some(lastResp.e)
           ELSE /\ gvOutcome.e.name = "PlayStoreError"
                /\ gvOutcome.e.statusCode = Undefined

\* an error naming both a timeout and "not found", after a retry: not-found wins
C27_Witness ==
    /\ GetVersionEnded
    /\ store = "play"
    /\ NumLookups = 2
    /\ lastResp.settled = "rejected"
    /\ IsError(lastResp.e)
    /\ lastResp.e.message = BackendMsg.timeoutNotFound
    /\ gvOutcome.e.name = "PlayStoreError"
    /\ gvOutcome.e.statusCode = Some(404)

-----------------------------------------------------------------------------
(* Concurrency claims. *)

\* the settings a lookup was sent with
SettingsOf(request) ==
    IF "lang" \in DOMAIN request
    THEN <<request.lang, request.country>>
    ELSE <<request.country, request.client.timeout>>

\* the settings of the configurations before and after the update: 'en' / 'us'
\* and 'fr' / 'mx' for the Play Store client, 'us' with the 10 s request helper
\* and 'uk' with the 5 s one for the App Store client
WholeSettings ==
    {<<"en", "us">>, <<"fr", "mx">>, <<"us", Some(10000)>>, <<"uk", Some(5000)>>}

\* the settings of a client's configuration as it is now
SettingsNow(s) ==
    IF s = "play" THEN <<config.play.language, config.play.country>>
    ELSE <<config.app.country, Some(config.app.timeout)>>

(* C28: when updateConfig changing country or language has completed on a  *)
(* client while one of its getVersion calls waits between attempts, the     *)
(* next attempt of that call is sent with the new values (for the App      *)
(* Store client through the request helper rebuilt by the update); and     *)
(* every lookup carries the settings of one whole configuration, the one   *)
(* before or the one after the update, never a mixture.                    *)
C28_UpdateSeenByLaterAttempts ==
    /\ [](\A i \in DOMAIN log : log[i].e = "lookup" => SettingsOf(log[i]) \in WholeSettings)
    /\ [][(pc = "backoff" /\ pc' = "lookup") =>
              SettingsOf(log'[Len(log')]) = SettingsNow(store)]_vars

\* a Play Store call whose first lookup went out with 'en' / 'us' and whose
\* second, after an update during the wait, with 'fr' / 'mx'
C28_Witness ==
    /\ store = "play"
    /\ NumLookups = 2
    /\ SettingsOf(log[1]) = <<"en", "us">>
    /\ log[2].e = "wait"
    /\ SettingsOf(log[3]) = <<"fr", "mx">>

\* the lookups among the first n entries of a call's log
LookupsIn(l, n) == Cardinality({i \in 1..n : l[i].e = "lookup"})

\* a call counts its own attempts and waits on its own timers: its k-th lookup
\* is its attempt k, within the maxAttempts it read when it began, and each of
\* its waits is the one due after its own latest attempt
OwnRetryLoop(c) ==
    c.cfgAtStart # Undefined =>
        /\ c.maxAttempts = (IF c.cfgAtStart[1].retryEnabled
                            THEN c.cfgAtStart[1].retryAttempts ELSE 1)
        /\ LookupsIn(c.log, Len(c.log)) <= c.maxAttempts
        /\ c.attempts = LookupsIn(c.log, Len(c.log))
        /\ \A i \in DOMAIN c.log :
               IF c.log[i].e = "lookup"
               THEN c.log[i].attempt = LookupsIn(c.log, i)
               ELSE c.log[i].ms = (2 ^ LookupsIn(c.log, i)) * 1000
        /\ c.pc = "done" <=> c.gvOutcome # NoOutcome
        /\ c.pc = "lookup" <=> (c.gvOutcome = NoOutcome /\ c.log[Len(c.log)].e = "lookup")
        /\ c.pc = "backoff" <=> (c.gvOutcome = NoOutcome /\ c.log[Len(c.log)].e = "wait")

(* C29: two getVersion calls under way on the same client each keep their   *)
(* own attempt counter and backoff timers: each makes at most its own       *)
(* maxAttempts lookups, numbered by its own counter, and a step of one      *)
(* call (a lookup settling in success or failure, a timer firing, the call  *)
(* ending) leaves the other call's counter, waits and position as they      *)
(* were, in every interleaving.                                             *)
C29_ConcurrentCallsIndependent ==
    /\ [](OwnRetryLoop(Locals) /\ OwnRetryLoop(other))
    /\ [][other' = other \/ (other' = Locals /\ Locals' = other)]_vars

\* both calls on the App Store client: one has returned from its first attempt,
\* the other, begun under another maxAttempts, waits after its second failure
C29_Witness ==
    /\ store = "app"
    /\ other.store = "app"
    /\ other.pc = "done"
    /\ other.gvOutcome.t = "returned"
    /\ other.attempts = 1
    /\ other.maxAttempts = 2
    /\ pc = "backoff"
    /\ attempts = 2
    /\ maxAttempts = 3

-----------------------------------------------------------------------------
(* Shape of the configurations. *)

\* the fields the store's configuration type declares
DeclaredFields(s) ==
    SharedFieldNames \cup {"country", "includeMetadata"}
        \cup (IF s = "play" THEN {"language"} ELSE {})

(* C30: after any sequence of facade.updateConfig calls, with or without    *)
(* appStore / playStore overrides, facade.getConfig() has exactly the five  *)
(* shared fields (timeout, userAgent, headers, retryEnabled,                *)
(* retryAttempts), never an appStore or playStore key, and each store       *)
(* client's configuration has only the fields declared for that store.      *)
C30_ConfigShapes ==
    /\ ObjectKeys(GetConfigOf(facade)) = SharedFieldNames
    /\ \A s \in Stores : ObjectKeys(config[s]) \subseteq DeclaredFields(s)


-----------------------------------------------------------------------------
\* the fields an argument of facade.updateConfig names for a store: at top
\* level, or inside that store's override object
NamedFor(p, s) == SharedKeys(p) \cup ObjectKeys(FieldOr(p, StoreKey(s), EmptyObject))

(* C31: facade.updateConfig(p) leaves unchanged, in each store client,      *)
(* every configuration field that p names neither at top level nor inside  *)
(* that store's override object; in particular the store-specific          *)
(* userAgent set at construction and a per-store override of a shared      *)
(* field given at construction keep their values after a facade update     *)
(* that names only a different field.                                      *)
C31_FacadeUpdateFrame ==
    LastOp("facadeUpdate") =>
        \A s \in Stores :
            \A f \in ObjectKeys(SeenBefore(s)) \ NamedFor(lastCfgOp[1].arg, s) :
                Get(Seen(s), f) = Get(SeenBefore(s), f)

-----------------------------------------------------------------------------
(* C32: compareVersions is antisymmetric: compareVersions(a, b) is the      *)
(* negation of compareVersions(b, a) for all strings a and b, including    *)
(* when a and b are the two different sentinels "Unknown" and "VARY".      *)
C32_Antisymmetric ==
    cmpRes # Undefined => cmpRes[1] = 0 - compareVersions(cmpB, cmpA)

-----------------------------------------------------------------------------
\* (retryEnabled ? retryAttempts : 1) of the configuration the call started with
BoundAtStart == IF cfgAtStart[1].retryEnabled THEN cfgAtStart[1].retryAttempts ELSE 1

\* the same of the client's configuration as it is now
BoundNow == IF config[store].retryEnabled THEN config[store].retryAttempts ELSE 1

(* C33: the attempt bound of a getVersion call is fixed when the call       *)
(* starts: an updateConfig that changes retryEnabled or retryAttempts while *)
(* the call waits in backoff does not change how many lookups the call     *)
(* makes.  The call keeps the bound computed at its start, makes at most   *)
(* that many lookups, waits only when lookups remain under that bound, and *)
(* every wait is followed by the next lookup.                              *)
C33_AttemptBoundFixedAtStart ==
    /\ [](cfgAtStart # Undefined =>
              /\ maxAttempts = BoundAtStart
              /\ NumLookups <= BoundAtStart
              /\ pc = "backoff" => NumLookups < BoundAtStart)
    /\ [][(pc = "backoff" /\ pc' # "backoff") =>
              (pc' = "lookup" /\ maxAttempts' = maxAttempts)]_vars

\* a call that started with a bound of 2 makes its second lookup although
\* the bound of the client's configuration was lowered during the wait
C33_Witness ==
    /\ cfgAtStart # Undefined
    /\ BoundAtStart = 2
    /\ pc = "lookup"
    /\ NumLookups = 2
    /\ NumWaits = 1
    /\ BoundNow < 2

-----------------------------------------------------------------------------
\* the kind and the status code of an error raised by getVersion
KindAndStatus(e) ==
    <<e.name, IF "statusCode" \in DOMAIN e THEN e.statusCode ELSE Undefined>>

\* what failed in the most recent attempt: the rejection of the lookup, or the
\* error the try block threw on what the lookup resolved with
LastFailure == TryBlock(store, argId, lastResp).e

\* the error a call raises when that failure is the failure of its only attempt
ClassifiedAlone(failure) == CatchBlock(store, failure, argId, 1, 1).e

(* C34: the error raised by a failed getVersion call is determined by the   *)
(* failure of its last attempt only: its kind (StoreError or NetworkError)  *)
(* and its status code are those obtained by classifying the last           *)
(* attempt's failure, whatever the earlier attempts of the call failed     *)
(* with.                                                                   *)
C34_LastAttemptDecidesError ==
    (pc = "done" /\ GetVersionEntered /\ gvOutcome.t = "threw" /\ NumLookups >= 1) =>
        /\ lastResp.settled # "none"
        /\ TryBlock(store, argId, lastResp).t = "threw"
        /\ KindAndStatus(gvOutcome.e) = KindAndStatus(ClassifiedAlone(LastFailure))

\* a Play Store call whose first attempt found no app and whose second and
\* last attempt failed in transport raises a NetworkError
C34_Witness ==
    /\ pc = "done"
    /\ store = "play"
    /\ gvOutcome.t = "threw"
    /\ NumLookups = 2
    /\ ~transportOnly
    /\ TransportFailure(store, lastResp)
    /\ IsError(lastResp.e)
    /\ lastResp.e.message = BackendMsg.networkDown
    /\ gvOutcome.e.name = "NetworkError"

-----------------------------------------------------------------------------
(* C35: if the store reports a sentinel as the latest version ("Unknown",   *)
(* which the Play Store client puts in when the backend's record has no    *)
(* version, or "VARY") and currentVersion is a string that is not a        *)
(* sentinel, checkForUpdates returns updateAvailable = false,              *)
(* versionComparison = 1 and no updateDetails, whatever currentVersion is. *)
C35_SentinelLatestMeansNoUpdate ==
    (/\ pc = "done"
     /\ op = "checkForUpdates"
     /\ gvOutcome.t = "returned"
     /\ gvOutcome.v.version \in Sentinels
     /\ argCur.v \notin Sentinels) =>
        /\ outcome.t = "returned"
        /\ outcome.v.updateAvailable = FALSE
        /\ outcome.v.versionComparison = 1
        /\ outcome.v.updateDetails = Undefined
        /\ outcome.v.latestVersion = gvOutcome.v.version

\* the Play Store backend's record has no version: the client reports
\* "Unknown", and 1.10.0 is not offered an update
C35_Witness ==
    /\ pc = "done"
    /\ op = "checkForUpdates"
    /\ store = "play"
    /\ lastResp.settled = "resolved"
    /\ lastResp.data # JsNull
    /\ lastResp.data.version = Undefined
    /\ gvOutcome.t = "returned"
    /\ gvOutcome.v.version = SENTINEL_Unknown
    /\ argCur.v = V_1_10_0
    /\ outcome.t = "returned"
    /\ outcome.v.versionComparison = 1
    /\ ~outcome.v.updateAvailable

====
